---------------------------- MODULE Spec2Model ----------------------------
(***************************************************************************)
(* Model of the smart-forwarding core of the Gorp bot: the per-channel     *)
(* ActivityTracker, its pending-message queues, the sliding-window         *)
(* RateLimiter, the batch scheduler and the MessageCreate handler that     *)
(* drives them.                                                            *)
(*                                                                         *)
(* Node runs every handler to its next await on real I/O without           *)
(* interruption, so one action of the model is one such run: from the      *)
(* arrival of an event (or the completion of an I/O operation) to the      *)
(* next point at which the handler waits for the network.  An await whose  *)
(* promise is resolved without I/O only hops through the microtask queue   *)
(* and cannot be interleaved with another event, so it does not end an     *)
(* action.                                                                 *)
(*                                                                         *)
(* Time is counted in units of 30 seconds; the clock of the program's      *)
(* specifications advances in steps of 15 minutes.                         *)
(***************************************************************************)
EXTENDS Integers, Sequences, FiniteSets

(***************************************************************************)
(* Bounds of the model.                                                    *)
(***************************************************************************)
MaxMsgs == 3            \* inbound messages of one behaviour
MaxTime == 150          \* the clock stops here (5 steps of 15 minutes)
QueuePrefill == 48      \* QueueSpec starts after this many enqueues
QueueMsgs == 7          \* further messages of QueueSpec
MaxInFlight == 2        \* concurrent attachment downloads in QueueSpec
HandlerMsgs == 2         \* inbound messages of HandlerSpec
ShutdownMsgs == 2        \* inbound messages of ShutdownSpec
MaxAtts == 4            \* attachments of one message in ImageSpec
MaxCalls == 2           \* calls of processImageAttachments in ImageSpec
MaxTotalAtts == 5       \* attachments of all calls of ImageSpec together
MaxCap == 2             \* LimiterSpec tries the caps 1..MaxCap
MaxRecords == 3         \* timestamps LimiterSpec lets the limiter hold
FineSteps == 2          \* 30-second steps of LimiterSpec's clock
LimiterMaxTime == 182   \* LimiterSpec's clock stops here (91 minutes)
LiveMsgs == 3           \* inbound messages of LiveSpec
LiveCap == 8            \* LiveSpec's rate limit: above the sends of LiveMsgs messages

Channels == {"c1", "c2"}
Authors == {"user", "gorp"}
\* classes of message text: ordinary text, text containing a mention token
\* or the word gorp, whitespace only, exactly the token <@!id>, text
\* matching /is this true/
Contents == {"plain", "mention", "empty", "exact", "truth"}
\* and the token <@!id> followed by one of the command words of the switch
CommandContents == {"command"}
\* no attachment, image attachment(s), only non-image attachment(s)
Attachments == {"none", "image", "file"}

(***************************************************************************)
(* Program constants and configuration.                                    *)
(***************************************************************************)
windowMs == 120                  \* 60 * 60 * 1000 ms
rateLimitPerHour == 1            \* LETTA_RATE_LIMIT_PER_HOUR
GORP_INTERACTION_TIMEOUT == 60   \* LETTA_GORP_TIMEOUT = 30 minutes
BATCH_INTERVAL == 60             \* LETTA_BATCH_INTERVAL = 30 minutes
MAX_PENDING == 50
MS_PER_MINUTE == 2               \* 1000 * 60 ms
batchSize == 3                   \* processImageAttachments

\* a step of the clock: 15 minutes, a quarter of the window
TimeStep == windowMs \div 4
lettaEnabled == TRUE              \* config.letta.enabled
autoForward == TRUE
smartForward == TRUE

\* config.letta as it is without LETTA_AUTO_FORWARD and LETTA_SMART_FORWARD
DefaultConfig ==
    [enabled |-> lettaEnabled, autoForward |-> autoForward, smartForward |-> smartForward]

VARIABLES
    now,                 \* Date.now()
    nextId,              \* id of the next inbound message
    channelActivities,   \* ActivityTracker.channelActivities (Map)
    channelOrder,        \* insertion order of that Map
    maxMessagesPerHour,  \* RateLimiter.maxMessagesPerHour (readonly)
    config,              \* config.letta: enabled, autoForward, smartForward
    batchInterval,       \* ActivityTracker.batchInterval: TRUE while the timer is set
    imageCalls,          \* the calls of processImageAttachments, in order of call
    messageTimestamps,   \* RateLimiter.messageTimestamps
    handlers,            \* message handlers waiting on I/O
    flushes,             \* sendBatchUpdate calls waiting on I/O
    ticks,               \* processBatchUpdates runs
    nextTickAt,          \* when the setInterval timer fires next
    pushCount,           \* ghost: pushes onto each channel's queue so far
    abandoned,           \* ghost: channels whose latest flush attempt was a
                         \* mention's and was refused by the rate limiter
    relayed,             \* ghost: what processQuery has sent successfully
    ev                   \* ghost: what the step just taken did

vars == <<now, nextId, channelActivities, channelOrder, maxMessagesPerHour,
          config, batchInterval, imageCalls,
          messageTimestamps, handlers, flushes, ticks, nextTickAt, pushCount,
          abandoned, relayed, ev>>

\* op names the step, id and channel its message or channel, flags what
\* happened in it, denied the channels a scheduler run was refused for
Event(op, id, channel, flags, denied) ==
    [op |-> op, id |-> id, channel |-> channel, flags |-> flags, denied |-> denied]

NoEvent(op) == Event(op, 0, "-", {}, {})

NewActivity == [lastGorpMention |-> 0, lastGorpMessage |-> 0, lastActivity |-> 0,
                pendingMessages |-> <<>>, isActive |-> FALSE]

(***************************************************************************)
(* RateLimiter                                                             *)
(***************************************************************************)
Max(a, b) == IF a >= b THEN a ELSE b

\* Math.ceil(n / d) for d > 0
Ceil(n, d) == -((-n) \div d)

\* faulty variant: a timestamp exactly one window old is kept
InWindowInclusive(t, timestamp) == t - timestamp <= windowMs

\* now - timestamp < this.windowMs
InWindow(t, timestamp) == t - timestamp < windowMs

\* the filter of canSendMessage and getStatus
PurgeTimestamps(ts, t) == SelectSeq(ts, LAMBDA timestamp : InWindow(t, timestamp))

\* faulty variant: the count is compared with <= and one message too many
\* is admitted
canSendMessageInclusive(ts, t) == Len(PurgeTimestamps(ts, t)) <= maxMessagesPerHour

\* the value canSendMessage returns at time t
canSendMessage(ts, t) == Len(PurgeTimestamps(ts, t)) < maxMessagesPerHour

recordMessageSent(ts, t) == Append(ts, t)

\* faulty variant: resetTime is taken from the newest retained timestamp
getStatusNewest(ts, t) ==
    LET kept == PurgeTimestamps(ts, t)
        messagesInWindow == Len(kept)
    IN  [messagesInWindow |-> messagesInWindow,
         maxMessagesPerHour |-> maxMessagesPerHour,
         remainingMessages |-> Max(0, maxMessagesPerHour - messagesInWindow),
         resetTime |-> IF Len(kept) > 0 THEN kept[Len(kept)] + windowMs ELSE t]

\* the record getStatus returns at time t (it purges as canSendMessage does)
getStatus(ts, t) ==
    LET kept == PurgeTimestamps(ts, t)
        messagesInWindow == Len(kept)
    IN  [messagesInWindow |-> messagesInWindow,
         maxMessagesPerHour |-> maxMessagesPerHour,
         remainingMessages |-> Max(0, maxMessagesPerHour - messagesInWindow),
         resetTime |-> IF Len(kept) > 0 THEN kept[1] + windowMs ELSE t]

\* faulty variant: Math.floor instead of Math.ceil
getTimeUntilResetFloor(ts, t, t2) ==
    LET status == getStatus(ts, t)
        timeUntilReset == status.resetTime - t2
    IN  Max(0, timeUntilReset \div MS_PER_MINUTE)

\* getTimeUntilReset: getStatus reads the clock at t, the function reads it
\* again at t2
getTimeUntilReset(ts, t, t2) ==
    LET status == getStatus(ts, t)
        timeUntilReset == status.resetTime - t2
    IN  Max(0, Ceil(timeUntilReset, MS_PER_MINUTE))

(***************************************************************************)
(* ActivityTracker: pure parts                                             *)
(***************************************************************************)
getOrCreateChannelActivity(acts, c) ==
    IF c \in DOMAIN acts THEN acts
    ELSE [x \in DOMAIN acts \cup {c} |-> IF x = c THEN NewActivity ELSE acts[x]]

\* ActivityTracker.isGorpMentioned: the text includes <@id> or <@!id>, or
\* matches /\bgorp\b/i
isGorpMentioned(msg) == msg.content \in {"mention", "exact", "command"}

\* isGorpMentioned of the MessageCreate handler: the text is exactly <@!id>
isGorpMentionedExact(msg) == msg.content = "exact"

\* !message.content.trim() && message.attachments.size === 0
IsEmptyMessage(msg) == msg.content = "empty" /\ msg.att = "none"

\* faulty variant: a stamp of 0 (never) is taken for a time
WithinTimeoutUnguarded(t, last) == t - last < GORP_INTERACTION_TIMEOUT

\* faulty variant: the window closed with <= instead of <
WithinTimeoutInclusive(t, last) == last > 0 /\ t - last <= GORP_INTERACTION_TIMEOUT

\* timeSince... < GORP_INTERACTION_TIMEOUT, Infinity when never stamped
WithinTimeout(t, last) == last > 0 /\ t - last < GORP_INTERACTION_TIMEOUT

\* faulty variant: the limit is never applied
LimitPendingNone(q) == q

\* faulty variant: slice(0, 50), the oldest 50 are kept
LimitPendingOldest(q) ==
    IF Len(q) > MAX_PENDING THEN SubSeq(q, 1, MAX_PENDING) ELSE q

\* pendingMessages.slice(-50) when longer than 50
LimitPending(q) ==
    IF Len(q) > MAX_PENDING THEN SubSeq(q, Len(q) - MAX_PENDING + 1, Len(q)) ELSE q

\* push of addPendingMessage followed by the limit
PushPending(q, pm) == LimitPending(Append(q, pm))

\* the entry addPendingMessage builds; seq is the ghost push number
PendingMessage(id, images, n) == [id |-> id, images |-> images, seq |-> n]

\* A digest is a string put together from parts; it is kept as the sequence
\* of its parts.  The header carries the message count it states, an entry
\* the message whose text it is, the mention the message that triggered the
\* flush.
Part(kind, id) == [kind |-> kind, id |-> id]

\* pendingMessages.map(msg => msg.text).join('\n')
Listing(q) == [k \in 1..Len(q) |-> Part("entry", q[k].id)]

\* faulty variant of createBatchSummary: the entries are listed newest first
createBatchSummaryNewestFirst(a) ==
    LET q == a.pendingMessages
    IN <<Part("header", Len(q))>> \o [k \in 1..Len(q) |-> Part("entry", q[Len(q) + 1 - k].id)]

\* createBatchSummary: the header with messageCount, then the entries.  Its
\* null for an empty queue is never returned: processBatchUpdates skips a
\* channel with an empty queue before it builds the digest.
createBatchSummary(a) ==
    LET messageCount == Len(a.pendingMessages)
    IN <<Part("header", messageCount)>> \o Listing(a.pendingMessages)

\* the digest sendBatchUpdate builds: header and entries as above, then the
\* separator and the formatted mention
mentionSummary(a, mentionMessage) ==
    LET messageCount == Len(a.pendingMessages)
    IN <<Part("header", messageCount)>> \o Listing(a.pendingMessages)
           \o <<Part("separator", 0), Part("mention", mentionMessage.id)>>

\* the messages a digest lists, in the order it lists them
Listed(summary) ==
    LET es == SelectSeq(summary, LAMBDA p : p.kind = "entry")
    IN [k \in 1..Len(es) |-> es[k].id]

\* faulty variant: the test of isActive is missing
EligibleWhileActive(a, tnow) ==
    /\ Len(a.pendingMessages) # 0
    /\ ~(tnow - a.lastActivity > BATCH_INTERVAL)

\* faulty variant: the test of lastActivity is missing
EligibleWhenStale(a, tnow) ==
    /\ Len(a.pendingMessages) # 0
    /\ ~a.isActive

\* the three skip tests of processBatchUpdates, tnow the tick's Date.now()
EligibleForBatch(a, tnow) ==
    /\ Len(a.pendingMessages) # 0
    /\ ~a.isActive
    /\ ~(tnow - a.lastActivity > BATCH_INTERVAL)


\* ghost: the messages a digest carries to Letta, each with the part it has
\* in the digest
Carried(summary) ==
    {<<summary[k].id, summary[k].kind>> :
        k \in {j \in 1..Len(summary) : summary[j].kind \in {"entry", "mention"}}}

\* ghost: relayed after a successful send of items; the third component
\* numbers the sends of one message in one part
Relay(R, items) ==
    R \cup {<<x[1], x[2], 1 + Cardinality({y \in R : y[1] = x[1] /\ y[2] = x[2]})>> :
                x \in items}

(***************************************************************************)
(* Records of the work in flight                                           *)
(***************************************************************************)
Handler(msg, pc) == [id |-> msg.id, channel |-> msg.channel, pc |-> pc]

Flush(msg, summary, pc) ==
    [id |-> msg.id, channel |-> msg.channel, summary |-> summary, pc |-> pc]

\* faulty variant of sendBatchUpdate: the return after the refusal is
\* missing, the digest is sent all the same
sendBatchUpdateUnchecked(a, msg, ts, t) ==
    IF msg.att = "image"
    THEN [flushes |-> {Flush(msg, mentionSummary(a, msg), "images")}, timestamps |-> ts,
          flags |-> {"flushWaiting"}]
    ELSE [flushes |-> {Flush(msg, mentionSummary(a, msg), "sending")},
          timestamps |-> PurgeTimestamps(ts, t),
          flags |-> IF canSendMessage(ts, t) THEN {"flushStarted"} ELSE {"flushDenied"}]

(***************************************************************************)
(* sendBatchUpdate up to its first wait.  The digest is built from the     *)
(* queue as it is now; a mention with images waits for their download      *)
(* before the rate limit is consulted, any other mention consults it at    *)
(* once and, when admitted, waits for processQuery.                        *)
(***************************************************************************)
sendBatchUpdate(a, msg, ts, t) ==
    IF msg.att = "image"
    THEN [flushes |-> {Flush(msg, mentionSummary(a, msg), "images")}, timestamps |-> ts,
          flags |-> {"flushWaiting"}]
    ELSE IF canSendMessage(ts, t)
         THEN [flushes |-> {Flush(msg, mentionSummary(a, msg), "sending")},
               timestamps |-> PurgeTimestamps(ts, t), flags |-> {"flushStarted"}]
         ELSE [flushes |-> {}, timestamps |-> PurgeTimestamps(ts, t),
               flags |-> {"flushDenied"}]

\* faulty variant of addPendingMessage: the test for an empty message is
\* missing
addPendingMessageAll(a, msg, n) ==
    IF msg.att = "image" THEN [activity |-> a, flags |-> {"pushWaiting"}]
    ELSE [activity |-> [a EXCEPT !.pendingMessages =
                           PushPending(@, PendingMessage(msg.id, FALSE, n + 1))],
          flags |-> IF IsEmptyMessage(msg) THEN {"skippedEmpty"} ELSE {"pushed"}]

(***************************************************************************)
(* addPendingMessage up to its first wait: nothing for an empty message,   *)
(* a wait for the download when the message carries images, the push       *)
(* otherwise.                                                              *)
(***************************************************************************)
addPendingMessage(a, msg, n) ==
    IF IsEmptyMessage(msg) THEN [activity |-> a, flags |-> {"skippedEmpty"}]
    ELSE IF msg.att = "image" THEN [activity |-> a, flags |-> {"pushWaiting"}]
    ELSE [activity |-> [a EXCEPT !.pendingMessages =
                           PushPending(@, PendingMessage(msg.id, FALSE, n + 1))],
          flags |-> {"pushed"}]

\* faulty variant of shouldForwardImmediately: the author is tested before
\* the mention
shouldForwardImmediatelyAuthorFirst(a, msg, ts, t, n) ==
    LET a1 == [a EXCEPT !.lastActivity = t]
        none == [flushes |-> {}, timestamps |-> ts, flags |-> {}]
    IN IF msg.author = "gorp"
       THEN [activity |-> [a1 EXCEPT !.lastGorpMessage = t, !.isActive = TRUE],
             result |-> TRUE, flushes |-> {}, timestamps |-> ts, flags |-> {"fromGorp"}]
       ELSE IF isGorpMentioned(msg)
       THEN LET f == IF Len(a1.pendingMessages) > 0
                     THEN sendBatchUpdate(a1, msg, ts, t) ELSE none
            IN [activity |-> [a1 EXCEPT !.lastGorpMention = t, !.isActive = TRUE],
                result |-> TRUE, flushes |-> f.flushes, timestamps |-> f.timestamps,
                flags |-> {"mentioned"} \cup f.flags]
       ELSE IF WithinTimeout(t, a1.lastGorpMention) \/ WithinTimeout(t, a1.lastGorpMessage)
       THEN [activity |-> [a1 EXCEPT !.isActive = TRUE],
             result |-> TRUE, flushes |-> {}, timestamps |-> ts, flags |-> {}]
       ELSE LET p == addPendingMessage([a1 EXCEPT !.isActive = FALSE], msg, n)
            IN [activity |-> p.activity, result |-> FALSE, flushes |-> {},
                timestamps |-> ts, flags |-> p.flags]

\* faulty variant of shouldForwardImmediately: isActive is not cleared when
\* the message is batched
shouldForwardImmediatelySticky(a, msg, ts, t, n) ==
    LET a1 == [a EXCEPT !.lastActivity = t]
        none == [flushes |-> {}, timestamps |-> ts, flags |-> {}]
    IN IF isGorpMentioned(msg)
       THEN LET f == IF Len(a1.pendingMessages) > 0
                     THEN sendBatchUpdate(a1, msg, ts, t) ELSE none
            IN [activity |-> [a1 EXCEPT !.lastGorpMention = t, !.isActive = TRUE],
                result |-> TRUE, flushes |-> f.flushes, timestamps |-> f.timestamps,
                flags |-> {"mentioned"} \cup f.flags]
       ELSE IF msg.author = "gorp"
       THEN [activity |-> [a1 EXCEPT !.lastGorpMessage = t, !.isActive = TRUE],
             result |-> TRUE, flushes |-> {}, timestamps |-> ts, flags |-> {"fromGorp"}]
       ELSE IF WithinTimeout(t, a1.lastGorpMention) \/ WithinTimeout(t, a1.lastGorpMessage)
       THEN [activity |-> [a1 EXCEPT !.isActive = TRUE],
             result |-> TRUE, flushes |-> {}, timestamps |-> ts, flags |-> {}]
       ELSE LET p == addPendingMessage(a1, msg, n)
            IN [activity |-> p.activity, result |-> FALSE, flushes |-> {},
                timestamps |-> ts, flags |-> p.flags]

\* faulty variant of shouldForwardImmediately: lastActivity is stamped
\* after the mention and author blocks, which return before it
shouldForwardImmediatelyLateStamp(a, msg, ts, t, n) ==
    LET a1 == [a EXCEPT !.lastActivity = t]
        none == [flushes |-> {}, timestamps |-> ts, flags |-> {}]
    IN IF isGorpMentioned(msg)
       THEN LET f == IF Len(a.pendingMessages) > 0
                     THEN sendBatchUpdate(a, msg, ts, t) ELSE none
            IN [activity |-> [a EXCEPT !.lastGorpMention = t, !.isActive = TRUE],
                result |-> TRUE, flushes |-> f.flushes, timestamps |-> f.timestamps,
                flags |-> {"mentioned"} \cup f.flags]
       ELSE IF msg.author = "gorp"
       THEN [activity |-> [a EXCEPT !.lastGorpMessage = t, !.isActive = TRUE],
             result |-> TRUE, flushes |-> {}, timestamps |-> ts, flags |-> {"fromGorp"}]
       ELSE IF WithinTimeout(t, a1.lastGorpMention) \/ WithinTimeout(t, a1.lastGorpMessage)
       THEN [activity |-> [a1 EXCEPT !.isActive = TRUE],
             result |-> TRUE, flushes |-> {}, timestamps |-> ts, flags |-> {}]
       ELSE LET p == addPendingMessage([a1 EXCEPT !.isActive = FALSE], msg, n)
            IN [activity |-> p.activity, result |-> FALSE, flushes |-> {},
                timestamps |-> ts, flags |-> p.flags]

\* faulty variant of shouldForwardImmediately: a message forwarded within
\* the timeout counts as an interaction and starts the window anew
shouldForwardImmediatelySliding(a, msg, ts, t, n) ==
    LET a1 == [a EXCEPT !.lastActivity = t]
        none == [flushes |-> {}, timestamps |-> ts, flags |-> {}]
    IN IF isGorpMentioned(msg)
       THEN LET f == IF Len(a1.pendingMessages) > 0
                     THEN sendBatchUpdate(a1, msg, ts, t) ELSE none
            IN [activity |-> [a1 EXCEPT !.lastGorpMention = t, !.isActive = TRUE],
                result |-> TRUE, flushes |-> f.flushes, timestamps |-> f.timestamps,
                flags |-> {"mentioned"} \cup f.flags]
       ELSE IF msg.author = "gorp"
       THEN [activity |-> [a1 EXCEPT !.lastGorpMessage = t, !.isActive = TRUE],
             result |-> TRUE, flushes |-> {}, timestamps |-> ts, flags |-> {"fromGorp"}]
       ELSE IF WithinTimeout(t, a1.lastGorpMention) \/ WithinTimeout(t, a1.lastGorpMessage)
       THEN [activity |-> [a1 EXCEPT !.lastGorpMention = t, !.isActive = TRUE],
             result |-> TRUE, flushes |-> {}, timestamps |-> ts, flags |-> {}]
       ELSE LET p == addPendingMessage([a1 EXCEPT !.isActive = FALSE], msg, n)
            IN [activity |-> p.activity, result |-> FALSE, flushes |-> {},
                timestamps |-> ts, flags |-> p.flags]

(***************************************************************************)
(* shouldForwardImmediately up to its first wait, for the activity record  *)
(* a of the message's channel (already resolved), the limiter's            *)
(* timestamps ts and the time t.  n is the channel's push count.           *)
(***************************************************************************)
shouldForwardImmediately(a, msg, ts, t, n) ==
    LET a1 == [a EXCEPT !.lastActivity = t]
        none == [flushes |-> {}, timestamps |-> ts, flags |-> {}]
    IN IF isGorpMentioned(msg)
       THEN LET f == IF Len(a1.pendingMessages) > 0
                     THEN sendBatchUpdate(a1, msg, ts, t) ELSE none
            IN [activity |-> [a1 EXCEPT !.lastGorpMention = t, !.isActive = TRUE],
                result |-> TRUE, flushes |-> f.flushes, timestamps |-> f.timestamps,
                flags |-> {"mentioned"} \cup f.flags]
       ELSE IF msg.author = "gorp"
       THEN [activity |-> [a1 EXCEPT !.lastGorpMessage = t, !.isActive = TRUE],
             result |-> TRUE, flushes |-> {}, timestamps |-> ts, flags |-> {"fromGorp"}]
       ELSE IF WithinTimeout(t, a1.lastGorpMention) \/ WithinTimeout(t, a1.lastGorpMessage)
       THEN [activity |-> [a1 EXCEPT !.isActive = TRUE],
             result |-> TRUE, flushes |-> {}, timestamps |-> ts, flags |-> {}]
       ELSE LET p == addPendingMessage([a1 EXCEPT !.isActive = FALSE], msg, n)
            IN [activity |-> p.activity, result |-> FALSE, flushes |-> {},
                timestamps |-> ts, flags |-> p.flags]

\* faulty variant of sendMessageToLetta: the return after the refusal is
\* missing, the message is sent all the same
sendMessageToLettaUnchecked(msg, ts, t) ==
    IF IsEmptyMessage(msg) THEN [handlers |-> {}, timestamps |-> ts, flags |-> {}]
    ELSE [handlers |-> {Handler(msg, "sending")},
          timestamps |-> PurgeTimestamps(ts, t),
          flags |-> IF canSendMessage(ts, t) THEN {"forwardStarted"} ELSE {"forwardDenied"}]

(***************************************************************************)
(* sendMessageToLetta up to its first wait: an empty message returns, a    *)
(* denied one returns, an admitted one waits for the history fetch, the    *)
(* image download and processQuery (nothing shared is read in between).    *)
(***************************************************************************)
sendMessageToLetta(msg, ts, t) ==
    IF IsEmptyMessage(msg) THEN [handlers |-> {}, timestamps |-> ts, flags |-> {}]
    ELSE IF canSendMessage(ts, t)
         THEN [handlers |-> {Handler(msg, "sending")},
               timestamps |-> PurgeTimestamps(ts, t), flags |-> {"forwardStarted"}]
         ELSE [handlers |-> {}, timestamps |-> PurgeTimestamps(ts, t),
               flags |-> {"forwardDenied"}]

\* ghost: what kind of message the step was about
Marks(msg) ==
    (IF msg.author = "gorp" THEN {"bot"} ELSE {})
      \cup (IF IsEmptyMessage(msg) THEN {"empty"} ELSE {})
      \cup (IF msg.content = "command" THEN {"command"} ELSE {})
      \cup (IF msg.content \in {"mention", "exact", "command"} THEN {"mentionText"} ELSE {})

(***************************************************************************)
(* A call of shouldForwardImmediately; when forward is TRUE the caller is  *)
(* handleMessageForwarding, which passes a message classified immediate    *)
(* on to sendMessageToLetta.                                               *)
(***************************************************************************)
Classify(msg, forward) ==
    LET c == msg.channel
        acts == getOrCreateChannelActivity(channelActivities, c)
        r == shouldForwardImmediately(acts[c], msg, messageTimestamps, now, pushCount[c])
        s == IF forward /\ r.result
             THEN sendMessageToLetta(msg, r.timestamps, now)
             ELSE [handlers |-> {}, timestamps |-> r.timestamps, flags |-> {}]
    IN /\ channelActivities' = [acts EXCEPT ![c] = r.activity]
       /\ channelOrder' = IF c \in DOMAIN channelActivities
                          THEN channelOrder ELSE Append(channelOrder, c)
       /\ messageTimestamps' = s.timestamps
       /\ flushes' = flushes \cup r.flushes
       /\ handlers' = handlers \cup s.handlers
                        \cup (IF "pushWaiting" \in r.flags
                              THEN {Handler(msg, "addImages")} ELSE {})
       /\ pushCount' = [pushCount EXCEPT ![c] = IF "pushed" \in r.flags THEN @ + 1 ELSE @]
       /\ abandoned' = IF "flushDenied" \in r.flags THEN abandoned \cup {c}
                       ELSE IF r.flags \cap {"flushStarted", "flushWaiting"} # {}
                            THEN abandoned \ {c} ELSE abandoned
       /\ ev' = Event("classify", msg.id, c,
                      r.flags \cup s.flags \cup (IF r.result THEN {"immediate"} ELSE {})
                         \cup Marks(msg), {})

handleMessageForwarding(msg) ==
    IF config.enabled /\ config.autoForward /\ config.smartForward
    THEN Classify(msg, TRUE)
    ELSE /\ ev' = Event("ignored", msg.id, msg.channel, {"notForwarded"} \cup Marks(msg), {})
         /\ UNCHANGED <<channelActivities, channelOrder, messageTimestamps,
                        flushes, handlers, pushCount, abandoned>>

\* the command word the handler parses: the text less a leading mention
\* token, trimmed, up to the first blank, in lower case; "known" is one of
\* the words of the switch, "other" any other word
ParseCommand(msg) ==
    IF msg.content = "exact" THEN ""
    ELSE IF msg.content = "command" THEN "known"
    ELSE "other"

\* a case of the switch: the command's handler replies; nothing of the
\* tracker or the limiter is touched
Dispatch(msg) ==
    /\ ev' = Event("command", msg.id, msg.channel, Marks(msg), {})
    /\ UNCHANGED <<channelActivities, channelOrder, messageTimestamps,
                   flushes, handlers, pushCount, abandoned>>

(***************************************************************************)
(* The MessageCreate handler: messages of bots are ignored, "is this       *)
(* true" is answered, a message that is not exactly the mention token is   *)
(* forwarded, one that is parses to an empty command and returns; the      *)
(* switch over the command words comes after that.                         *)
(***************************************************************************)
MessageCreate(msg) ==
    /\ msg.id = nextId
    /\ nextId' = nextId + 1
    /\ UNCHANGED <<relayed, maxMessagesPerHour, config, batchInterval, imageCalls, now, ticks, nextTickAt>>
    /\ IF msg.author = "gorp" \/ msg.content = "truth"
       THEN /\ ev' = Event("ignored", msg.id, msg.channel,
                           IF msg.author = "gorp" THEN {"bot"} ELSE {}, {})
            /\ UNCHANGED <<channelActivities, channelOrder, messageTimestamps,
                           flushes, handlers, pushCount, abandoned>>
       ELSE IF ~isGorpMentionedExact(msg) THEN handleMessageForwarding(msg)
       ELSE IF ParseCommand(msg) = ""
       THEN /\ ev' = Event("ignored", msg.id, msg.channel, {}, {})
            /\ UNCHANGED <<channelActivities, channelOrder, messageTimestamps,
                           flushes, handlers, pushCount, abandoned>>
       ELSE IF ParseCommand(msg) = "known" THEN Dispatch(msg)
       ELSE handleMessageForwarding(msg)

(***************************************************************************)
(* shouldForwardImmediately called on its own, by any caller and with any  *)
(* message.                                                                *)
(***************************************************************************)
CallShouldForward(msg) ==
    /\ msg.id = nextId
    /\ nextId' = nextId + 1
    /\ UNCHANGED <<relayed, maxMessagesPerHour, config, batchInterval, imageCalls, now, ticks, nextTickAt>>
    /\ Classify(msg, FALSE)

(***************************************************************************)
(* Completions of I/O                                                      *)
(***************************************************************************)
\* addPendingMessage after processImageAttachments: push, limit, return false
AddImagesDone(h) ==
    /\ h \in handlers /\ h.pc = "addImages"
    /\ handlers' = handlers \ {h}
    /\ channelActivities' = [channelActivities EXCEPT ![h.channel].pendingMessages =
           PushPending(@, PendingMessage(h.id, TRUE, pushCount[h.channel] + 1))]
    /\ pushCount' = [pushCount EXCEPT ![h.channel] = @ + 1]
    /\ ev' = Event("pushed", h.id, h.channel, {}, {})
    /\ UNCHANGED <<relayed, maxMessagesPerHour, config, batchInterval, imageCalls, now, nextId, channelOrder, messageTimestamps,
                   flushes, ticks, nextTickAt, abandoned>>

\* sendMessageToLetta after processQuery: recorded when it succeeded, and
\* the getStatus of the log line purges
SendDone(h, ok) ==
    /\ h \in handlers /\ h.pc = "sending"
    /\ handlers' = handlers \ {h}
    /\ messageTimestamps' =
          IF ok THEN PurgeTimestamps(recordMessageSent(messageTimestamps, now), now)
          ELSE messageTimestamps
    /\ ev' = Event("forwardDone", h.id, h.channel, IF ok THEN {"ok"} ELSE {}, {})
    /\ relayed' = IF ok THEN Relay(relayed, {<<h.id, "forward">>}) ELSE relayed
    /\ UNCHANGED <<maxMessagesPerHour, config, batchInterval, imageCalls, now, nextId, channelActivities, channelOrder,
                   flushes, ticks, nextTickAt, pushCount, abandoned>>

\* faulty variant: after the download the digest is sent whatever the rate
\* limiter answers
FlushImagesDoneUnchecked(f) ==
    /\ f \in flushes /\ f.pc = "images"
    /\ flushes' = (flushes \ {f}) \cup {[f EXCEPT !.pc = "sending"]}
    /\ messageTimestamps' = PurgeTimestamps(messageTimestamps, now)
    /\ ev' = Event("flushImagesDone", f.id, f.channel, {"flushStarted"}, {})
    /\ UNCHANGED <<relayed, maxMessagesPerHour, config, batchInterval, imageCalls, now, nextId, channelActivities, channelOrder,
                   handlers, ticks, nextTickAt, pushCount, abandoned>>

\* sendBatchUpdate after the mention's images: the rate limit check
FlushImagesDone(f) ==
    /\ f \in flushes /\ f.pc = "images"
    /\ flushes' = IF canSendMessage(messageTimestamps, now)
                  THEN (flushes \ {f}) \cup {[f EXCEPT !.pc = "sending"]}
                  ELSE flushes \ {f}
    /\ messageTimestamps' = PurgeTimestamps(messageTimestamps, now)
    /\ ev' = Event("flushImagesDone", f.id, f.channel,
                   IF canSendMessage(messageTimestamps, now)
                   THEN {"flushStarted"} ELSE {"flushDenied"}, {})
    /\ abandoned' = IF canSendMessage(messageTimestamps, now)
                    THEN abandoned ELSE abandoned \cup {f.channel}
    /\ UNCHANGED <<relayed, maxMessagesPerHour, config, batchInterval, imageCalls, now, nextId, channelActivities, channelOrder,
                   handlers, ticks, nextTickAt, pushCount>>

\* what the end of a flush's send does to the channel's queue
QueueAfterSend(q, ok) == IF ok THEN <<>> ELSE q

\* faulty variant: a successful flush clears the queue of every channel
FlushSendDoneAll(f, ok) ==
    /\ f \in flushes /\ f.pc = "sending"
    /\ flushes' = flushes \ {f}
    /\ messageTimestamps' = IF ok THEN recordMessageSent(messageTimestamps, now)
                            ELSE messageTimestamps
    /\ channelActivities' =
          [c \in DOMAIN channelActivities |->
              [channelActivities[c] EXCEPT !.pendingMessages = QueueAfterSend(@, ok)]]
    /\ ev' = Event("flushDone", f.id, f.channel, IF ok THEN {"ok"} ELSE {}, {})
    /\ relayed' = IF ok THEN Relay(relayed, Carried(f.summary)) ELSE relayed
    /\ UNCHANGED <<maxMessagesPerHour, config, batchInterval, imageCalls, now, nextId, channelOrder, handlers, ticks,
                   nextTickAt, pushCount, abandoned>>

\* sendBatchUpdate after processQuery: record and clear, or the catch block
FlushSendDone(f, ok) ==
    /\ f \in flushes /\ f.pc = "sending"
    /\ flushes' = flushes \ {f}
    /\ messageTimestamps' = IF ok THEN recordMessageSent(messageTimestamps, now)
                            ELSE messageTimestamps
    /\ channelActivities' = [channelActivities EXCEPT ![f.channel].pendingMessages =
                                QueueAfterSend(@, ok)]
    /\ ev' = Event("flushDone", f.id, f.channel, IF ok THEN {"ok"} ELSE {}, {})
    /\ relayed' = IF ok THEN Relay(relayed, Carried(f.summary)) ELSE relayed
    /\ UNCHANGED <<maxMessagesPerHour, config, batchInterval, imageCalls, now, nextId, channelOrder, handlers, ticks,
                   nextTickAt, pushCount, abandoned>>


(***************************************************************************)
(* The batch scheduler.  The timer fires every BATCH_INTERVAL and starts   *)
(* a run of processBatchUpdates, which reads Date.now() once (tnow) and    *)
(* then walks the live entries of the Map.  A run waits only inside        *)
(* processQuery; a record of ticks is a run waiting there, at entry i of   *)
(* the Map, with the digest it is sending.                                 *)
(***************************************************************************)
Tick(tnow, i, summary) == [tnow |-> tnow, i |-> i, summary |-> summary]

\* faulty variant of the loop: a refusal ends it (break instead of continue)
RECURSIVE processBatchUpdatesBreak(_, _, _, _, _, _)
processBatchUpdatesBreak(acts, order, i, tnow, ts, t) ==
    IF i > Len(order) THEN [i |-> 0, timestamps |-> ts, denied |-> {}]
    ELSE IF ~EligibleForBatch(acts[order[i]], tnow)
         THEN processBatchUpdatesBreak(acts, order, i + 1, tnow, ts, t)
         ELSE IF canSendMessage(ts, t)
              THEN [i |-> i, timestamps |-> PurgeTimestamps(ts, t), denied |-> {}]
              ELSE [i |-> 0, timestamps |-> PurgeTimestamps(ts, t), denied |-> {order[i]}]

\* The loop of processBatchUpdates from entry i on, up to its next await or
\* its end: the entry at which the run waits (0 when the loop has ended),
\* the limiter's timestamps after the purges of the canSendMessage calls,
\* and the channels that passed the skip tests and were refused.
RECURSIVE processBatchUpdates(_, _, _, _, _, _)
processBatchUpdates(acts, order, i, tnow, ts, t) ==
    IF i > Len(order) THEN [i |-> 0, timestamps |-> ts, denied |-> {}]
    ELSE IF ~EligibleForBatch(acts[order[i]], tnow)
         THEN processBatchUpdates(acts, order, i + 1, tnow, ts, t)
         ELSE IF canSendMessage(ts, t)
              THEN [i |-> i, timestamps |-> PurgeTimestamps(ts, t), denied |-> {}]
              ELSE LET p == processBatchUpdates(acts, order, i + 1, tnow,
                                                PurgeTimestamps(ts, t), t)
                   IN [p EXCEPT !.denied = @ \cup {order[i]}]

\* the runs after run r (or none, r = {}) went on and came to wait at entry i
TicksAfter(r, tnow, i, acts) ==
    (ticks \ r) \cup
    (IF i = 0 THEN {} ELSE {Tick(tnow, i, createBatchSummary(acts[channelOrder[i]]))})

\* the channels the loop got as far as the rate limit check for
Attempted(p) == p.denied \cup (IF p.i = 0 THEN {} ELSE {channelOrder[p.i]})

\* faulty variant: the timer fires although destroy has cleared it
TickFireCleared ==
    /\ now = nextTickAt
    /\ nextTickAt' = nextTickAt + BATCH_INTERVAL
    /\ LET p == processBatchUpdates(channelActivities, channelOrder, 1, now,
                                    messageTimestamps, now)
       IN /\ ticks' = TicksAfter({}, now, p.i, channelActivities)
          /\ messageTimestamps' = p.timestamps
          /\ abandoned' = abandoned \ Attempted(p)
          /\ ev' = Event("tick", 0, "-", {}, p.denied)
    /\ UNCHANGED <<relayed, maxMessagesPerHour, config, batchInterval, imageCalls, now, nextId, channelActivities, channelOrder,
                   handlers, flushes, pushCount>>

\* the timer fires: processBatchUpdates from the first entry
TickFire ==
    /\ batchInterval
    /\ now = nextTickAt
    /\ nextTickAt' = nextTickAt + BATCH_INTERVAL
    /\ LET p == processBatchUpdates(channelActivities, channelOrder, 1, now,
                                    messageTimestamps, now)
       IN /\ ticks' = TicksAfter({}, now, p.i, channelActivities)
          /\ messageTimestamps' = p.timestamps
          /\ abandoned' = abandoned \ Attempted(p)
          /\ ev' = Event("tick", 0, "-", {}, p.denied)
    /\ UNCHANGED <<relayed, maxMessagesPerHour, config, batchInterval, imageCalls, now, nextId, channelActivities, channelOrder,
                   handlers, flushes, pushCount>>

\* processBatchUpdates after processQuery: record and clear, or the catch
\* block; the loop then goes on with the next entry
TickSendDone(r, ok) ==
    /\ r \in ticks
    /\ LET c == channelOrder[r.i]
           acts == [channelActivities EXCEPT ![c].pendingMessages = QueueAfterSend(@, ok)]
           ts == IF ok THEN recordMessageSent(messageTimestamps, now)
                 ELSE messageTimestamps
           p == processBatchUpdates(acts, channelOrder, r.i + 1, r.tnow, ts, now)
       IN /\ channelActivities' = acts
          /\ ticks' = TicksAfter({r}, r.tnow, p.i, acts)
          /\ messageTimestamps' = p.timestamps
          /\ abandoned' = abandoned \ Attempted(p)
          /\ ev' = Event("tickDone", 0, c, IF ok THEN {"ok"} ELSE {}, p.denied)
    /\ relayed' = IF ok THEN Relay(relayed, Carried(r.summary)) ELSE relayed
    /\ UNCHANGED <<maxMessagesPerHour, config, batchInterval, imageCalls, now, nextId, channelOrder, handlers, flushes,
                   nextTickAt, pushCount>>

\* the clock; the timer fires when its time has come
AdvanceTime ==
    /\ now < MaxTime
    /\ batchInterval => now < nextTickAt
    /\ now' = now + TimeStep
    /\ ev' = NoEvent("time")
    /\ UNCHANGED <<relayed, maxMessagesPerHour, config, batchInterval, imageCalls, nextId, channelActivities, channelOrder,
                   messageTimestamps, handlers, flushes, ticks, nextTickAt,
                   pushCount, abandoned>>

(***************************************************************************)
(* Specifications                                                          *)
(***************************************************************************)
\* Channel ids are opaque: the first channel to be tracked is called c1.
Messages(id) ==
    [id : {id}, channel : IF channelOrder = <<>> THEN {"c1"} ELSE Channels,
     author : {"user"}, content : Contents, att : Attachments]
    \cup [id : {id}, channel : IF channelOrder = <<>> THEN {"c1"} ELSE Channels,
          author : {"gorp"}, content : {"plain", "mention", "empty"}, att : {"none"}]

\* the state after the construction of RateLimiter and ActivityTracker,
\* config.letta being cfg
Start(cfg) ==
    /\ now = TimeStep
    /\ nextId = 1
    /\ channelActivities = [c \in {} |-> NewActivity]
    /\ channelOrder = <<>>
    /\ maxMessagesPerHour = rateLimitPerHour
    /\ config = cfg
    /\ batchInterval = TRUE
    /\ imageCalls = <<>>
    /\ messageTimestamps = <<>>
    /\ handlers = {}
    /\ flushes = {}
    /\ ticks = {}
    /\ nextTickAt = now + BATCH_INTERVAL
    /\ pushCount = [c \in Channels |-> 0]
    /\ abandoned = {}
    /\ relayed = {}
    /\ ev = NoEvent("start")

Init == Start(DefaultConfig)

Completions ==
    \/ \E h \in handlers : AddImagesDone(h)
    \/ \E f \in flushes : FlushImagesDone(f)
    \/ \E f \in flushes, ok \in BOOLEAN : FlushSendDone(f, ok)
    \/ TickFire
    \/ \E r \in ticks, ok \in BOOLEAN : TickSendDone(r, ok)
    \/ AdvanceTime

\* the program: events of the chat platform, the timer, I/O completions
Next ==
    \/ \E msg \in Messages(nextId) : nextId <= MaxMsgs /\ MessageCreate(msg)
    \/ \E h \in handlers, ok \in BOOLEAN : SendDone(h, ok)
    \/ Completions

Spec == Init /\ [][Next]_vars

\* the ActivityTracker on its own, shouldForwardImmediately called directly
TrackerNext ==
    \/ \E msg \in Messages(nextId) : nextId <= MaxMsgs /\ CallShouldForward(msg)
    \/ Completions

TrackerSpec == Init /\ [][TrackerNext]_vars

\* ActivityTracker.destroy: the timer is cleared if it is set
destroy ==
    /\ batchInterval' = FALSE
    /\ ev' = Event("destroy", 0, "-", IF batchInterval THEN {"cleared"} ELSE {}, {})
    /\ UNCHANGED <<relayed, maxMessagesPerHour, config, imageCalls, now, nextId, channelActivities,
                   channelOrder, messageTimestamps, handlers, flushes, ticks,
                   nextTickAt, pushCount, abandoned>>

\* the program with destroy called at any moment, any number of times
ShutdownNext ==
    \/ \E msg \in Messages(nextId) : nextId <= ShutdownMsgs /\ MessageCreate(msg)
    \/ \E h \in handlers, ok \in BOOLEAN : SendDone(h, ok)
    \/ Completions
    \/ destroy

ShutdownSpec == Init /\ [][ShutdownNext]_vars

(***************************************************************************)
(* processImageAttachments on its own, called by any caller, several calls *)
(* at a time.  An attachment is an image of an allowed type, an image of   *)
(* an allowed type above the size limit, or a file of another type; its    *)
(* name is its place in the list.  base64Data and error of a descriptor    *)
(* say whether it carries the payload and the error message.               *)
(***************************************************************************)
AttachmentKinds == {"image", "large", "file"}

AttachmentLists == UNION {[1..n -> AttachmentKinds] : n \in 1..MaxAtts}

\* the filter on allowedImageTypes
AllowedType(kind) == kind \in {"image", "large"}

\* imageAttachments: the places of the attachments that pass the filter
imageAttachments(attachments) ==
    SelectSeq([k \in 1..Len(attachments) |-> k], LAMBDA k : AllowedType(attachments[k]))

\* downloadAndEncodeImage throws before its fetch for an image that is too
\* large
NeedsFetch(kind) == kind = "image"

\* what downloadAndEncodeImage resolves to: the descriptor of the try
\* block or that of the catch block
ImageData(name, ok) == [name |-> name, base64Data |-> ok, error |-> ~ok]

\* imageAttachments.slice(i, i + batchSize), i counted from 1
BatchAt(images, i) ==
    SubSeq(images, i, IF i + batchSize - 1 <= Len(images) THEN i + batchSize - 1 ELSE Len(images))

\* faulty variant: a failed download leaves no descriptor
batchResultsDropFailed(attachments, batch, outcome) ==
    LET all == [j \in 1..Len(batch) |->
                  ImageData(batch[j], NeedsFetch(attachments[batch[j]]) /\ outcome[batch[j]])]
    IN  SelectSeq(all, LAMBDA d : ~d.error)

\* batchResults: what Promise.all yields, in the order of the batch
batchResults(attachments, batch, outcome) ==
    [j \in 1..Len(batch) |->
        ImageData(batch[j], NeedsFetch(attachments[batch[j]]) /\ outcome[batch[j]])]

\* a call: its argument, the places that passed the filter, the start of
\* the batch it waits for (0 once it has returned), the fetches in flight,
\* the outcome of the fetches that have ended, the results so far
ImageCall(attachments, images, i, inflight, outcome, results) ==
    [attachments |-> attachments, images |-> images, i |-> i, inflight |-> inflight,
     outcome |-> outcome, results |-> results]

\* the loop over the batches from place i on, up to a batch that has a
\* fetch to wait for, or to the return
RECURSIVE processImageAttachments(_, _, _, _, _)
processImageAttachments(attachments, images, i, outcome, results) ==
    IF i > Len(images)
    THEN ImageCall(attachments, images, 0, {}, outcome, results)
    ELSE LET batch == BatchAt(images, i)
             fetches == {batch[j] : j \in {j \in 1..Len(batch) : NeedsFetch(attachments[batch[j]])}}
         IN  IF fetches = {}
             THEN processImageAttachments(attachments, images, i + batchSize, outcome,
                     results \o batchResults(attachments, batch, outcome))
             ELSE ImageCall(attachments, images, i, fetches, outcome, results)

\* the attachments passed to the first n calls, counted
RECURSIVE AttachmentsPassed(_)
AttachmentsPassed(n) ==
    IF n = 0 THEN 0 ELSE Len(imageCalls[n].attachments) + AttachmentsPassed(n - 1)

\* a caller calls processImageAttachments
ImagesCalled(attachments) ==
    /\ Len(imageCalls) < MaxCalls
    /\ AttachmentsPassed(Len(imageCalls)) + Len(attachments) <= MaxTotalAtts
    /\ LET outcome == [k \in 1..Len(attachments) |-> FALSE]
           call == processImageAttachments(attachments, imageAttachments(attachments), 1,
                                           outcome, <<>>)
       IN /\ imageCalls' = Append(imageCalls, call)
          /\ ev' = Event("images", Len(imageCalls) + 1, "-",
                         IF call.i = 0 THEN {"returned"} ELSE {}, {})
    /\ UNCHANGED <<relayed, now, nextId, channelActivities, channelOrder, maxMessagesPerHour,
                   config, batchInterval, messageTimestamps, handlers, flushes, ticks,
                   nextTickAt, pushCount, abandoned>>

\* the fetch of attachment k of call c ends: the download succeeded, or
\* the request failed, timed out or was answered with an error status
FetchDone(c, k, ok) ==
    /\ c \in 1..Len(imageCalls)
    /\ k \in imageCalls[c].inflight
    /\ LET call == imageCalls[c]
           outcome == [call.outcome EXCEPT ![k] = ok]
           waiting == call.inflight \ {k}
           after == IF waiting # {}
                    THEN [call EXCEPT !.inflight = waiting, !.outcome = outcome]
                    ELSE processImageAttachments(call.attachments, call.images,
                            call.i + batchSize, outcome,
                            call.results \o batchResults(call.attachments,
                                               BatchAt(call.images, call.i), outcome))
       IN /\ imageCalls' = [imageCalls EXCEPT ![c] = after]
          /\ ev' = Event("fetchDone", c, "-",
                         (IF ok THEN {"ok"} ELSE {}) \cup
                         (IF after.i = 0 THEN {"returned"} ELSE {}), {})
    /\ UNCHANGED <<relayed, now, nextId, channelActivities, channelOrder, maxMessagesPerHour,
                   config, batchInterval, messageTimestamps, handlers, flushes, ticks,
                   nextTickAt, pushCount, abandoned>>

ImageNext ==
    \/ \E attachments \in AttachmentLists : ImagesCalled(attachments)
    \/ \E c \in 1..Len(imageCalls), k \in 1..MaxAtts, ok \in BOOLEAN : FetchDone(c, k, ok)

ImageSpec == Init /\ [][ImageNext]_vars

(***************************************************************************)
(* The MessageCreate handler under every setting of LETTA_AUTO_FORWARD and *)
(* LETTA_SMART_FORWARD, with command messages among the inbound ones.      *)
(***************************************************************************)
HandlerMessages(id) ==
    [id : {id}, channel : {"c1"}, author : {"user"},
     content : Contents \cup CommandContents, att : Attachments]

HandlerInit ==
    \E a \in BOOLEAN, sm \in BOOLEAN :
        Start([enabled |-> lettaEnabled, autoForward |-> a, smartForward |-> sm])

HandlerNext ==
    \/ \E msg \in HandlerMessages(nextId) : nextId <= HandlerMsgs /\ MessageCreate(msg)
    \/ \E h \in handlers, ok \in BOOLEAN : SendDone(h, ok)
    \/ Completions

HandlerSpec == HandlerInit /\ [][HandlerNext]_vars

\* a burst of messages into one dormant channel whose queue is nearly full
QueueInit ==
    /\ now = TimeStep
    /\ nextId = QueuePrefill + 1
    /\ channelActivities = [c \in {"c1"} |->
          [NewActivity EXCEPT !.lastActivity = TimeStep,
              !.pendingMessages = [k \in 1..QueuePrefill |-> PendingMessage(k, FALSE, k)]]]
    /\ channelOrder = <<"c1">>
    /\ maxMessagesPerHour = rateLimitPerHour
    /\ config = DefaultConfig
    /\ batchInterval = TRUE
    /\ imageCalls = <<>>
    /\ messageTimestamps = <<>>
    /\ handlers = {}
    /\ flushes = {}
    /\ ticks = {}
    /\ nextTickAt = now + BATCH_INTERVAL
    /\ pushCount = [c \in Channels |-> IF c = "c1" THEN QueuePrefill ELSE 0]
    /\ abandoned = {}
    /\ relayed = {}
    /\ ev = Event("classify", QueuePrefill, "c1", {"pushed"}, {})

QueueNext ==
    \/ \E content \in {"plain", "empty"}, att \in Attachments :
          /\ nextId <= QueuePrefill + QueueMsgs
          /\ Cardinality(handlers) < MaxInFlight
          /\ MessageCreate([id |-> nextId, channel |-> "c1", author |-> "user",
                            content |-> content, att |-> att])
    \/ \E h \in handlers : AddImagesDone(h)

QueueSpec == QueueInit /\ [][QueueNext]_vars

(***************************************************************************)
(* The RateLimiter on its own: its four methods called in any order by any *)
(* caller, for every cap up to MaxCap.  The clock advances by 15 minutes   *)
(* or, up to FineSteps times, by 30 seconds.                               *)
(***************************************************************************)
\* a call of a limiter method: the timestamps before it, the clock value it
\* read last and what it returned
Called(op, before, at, result) ==
    [op |-> op, id |-> 0, channel |-> "-", flags |-> {}, denied |-> {},
     before |-> before, at |-> at, result |-> result]

RestUnchanged ==
    UNCHANGED <<relayed, nextId, channelActivities, channelOrder, maxMessagesPerHour,
                config, batchInterval, imageCalls,
                handlers, flushes, ticks, nextTickAt, pushCount, abandoned>>

FineStepAllowed(t) == t % TimeStep < FineSteps

LimiterInit ==
    /\ now = TimeStep
    /\ nextId = 1
    /\ channelActivities = [c \in {} |-> NewActivity]
    /\ channelOrder = <<>>
    /\ maxMessagesPerHour \in 1..MaxCap
    /\ config = DefaultConfig
    /\ batchInterval = TRUE
    /\ imageCalls = <<>>
    /\ messageTimestamps = <<>>
    /\ handlers = {}
    /\ flushes = {}
    /\ ticks = {}
    /\ nextTickAt = now + BATCH_INTERVAL
    /\ pushCount = [c \in Channels |-> 0]
    /\ abandoned = {}
    /\ relayed = {}
    /\ ev = NoEvent("start")

\* faulty variant: an admitted call reserves its place by recording itself
LimiterCanSendMessageReserving ==
    /\ messageTimestamps' =
          IF canSendMessage(messageTimestamps, now)
          THEN recordMessageSent(PurgeTimestamps(messageTimestamps, now), now)
          ELSE PurgeTimestamps(messageTimestamps, now)
    /\ ev' = Called("canSendMessage", messageTimestamps, now,
                    canSendMessage(messageTimestamps, now))
    /\ UNCHANGED now
    /\ RestUnchanged

LimiterCanSendMessage ==
    /\ messageTimestamps' = PurgeTimestamps(messageTimestamps, now)
    /\ ev' = Called("canSendMessage", messageTimestamps, now,
                    canSendMessage(messageTimestamps, now))
    /\ UNCHANGED now
    /\ RestUnchanged

LimiterRecordMessageSent ==
    /\ Len(messageTimestamps) < MaxRecords
    /\ messageTimestamps' = recordMessageSent(messageTimestamps, now)
    /\ ev' = Called("recordMessageSent", messageTimestamps, now, TRUE)
    /\ UNCHANGED now
    /\ RestUnchanged

LimiterGetStatus ==
    /\ messageTimestamps' = PurgeTimestamps(messageTimestamps, now)
    /\ ev' = Called("getStatus", messageTimestamps, now,
                    getStatus(messageTimestamps, now))
    /\ UNCHANGED now
    /\ RestUnchanged

\* the second reading of the clock may be later than the first
LimiterGetTimeUntilReset ==
    \E t2 \in {now} \cup {t \in {now + 1} : FineStepAllowed(now)} :
        /\ messageTimestamps' = PurgeTimestamps(messageTimestamps, now)
        /\ now' = t2
        /\ ev' = Called("getTimeUntilReset", messageTimestamps, t2,
                        getTimeUntilReset(messageTimestamps, now, t2))
        /\ RestUnchanged

LimiterAdvanceTime ==
    /\ \/ now' = now + TimeStep
       \/ FineStepAllowed(now) /\ now' = now + 1
    /\ now' <= LimiterMaxTime
    /\ ev' = NoEvent("time")
    /\ UNCHANGED messageTimestamps
    /\ RestUnchanged

LimiterNext ==
    \/ LimiterCanSendMessage
    \/ LimiterRecordMessageSent
    \/ LimiterGetStatus
    \/ LimiterGetTimeUntilReset
    \/ LimiterAdvanceTime

LimiterSpec == LimiterInit /\ [][LimiterNext]_vars

(***************************************************************************)
(* The program when nothing stands in the way of a delivery: every send    *)
(* to Letta succeeds, the rate limit (LETTA_RATE_LIMIT_PER_HOUR) is set    *)
(* above the number of sends there can be, the timer keeps firing and      *)
(* every I/O operation ends.  Messages arrive in one channel up to the     *)
(* first tick of the timer; from then on the channel is silent and an I/O  *)
(* operation takes less than a step of the clock.                          *)
(***************************************************************************)
LiveArrivalEnd == TimeStep + BATCH_INTERVAL

LiveMessages(id) ==
    [id : {id}, channel : {"c1"}, author : {"user"},
     content : {"plain", "mention"}, att : {"none", "image"}]

LiveInit ==
    /\ now = TimeStep
    /\ nextId = 1
    /\ channelActivities = [c \in {} |-> NewActivity]
    /\ channelOrder = <<>>
    /\ maxMessagesPerHour = LiveCap
    /\ config = DefaultConfig
    /\ batchInterval = TRUE
    /\ imageCalls = <<>>
    /\ messageTimestamps = <<>>
    /\ handlers = {}
    /\ flushes = {}
    /\ ticks = {}
    /\ nextTickAt = now + BATCH_INTERVAL
    /\ pushCount = [c \in Channels |-> 0]
    /\ abandoned = {}
    /\ relayed = {}
    /\ ev = NoEvent("start")

LiveArrival ==
    \E msg \in LiveMessages(nextId) :
        nextId <= LiveMsgs /\ now <= LiveArrivalEnd /\ MessageCreate(msg)

LiveSendDone == \E h \in handlers : SendDone(h, TRUE)

LiveAddImagesDone == \E h \in handlers : AddImagesDone(h)

LiveFlushImagesDone == \E f \in flushes : FlushImagesDone(f)

LiveFlushSendDone == \E f \in flushes : FlushSendDone(f, TRUE)

LiveTickSendDone == \E r \in ticks : TickSendDone(r, TRUE)

LiveAdvanceTime ==
    /\ now >= LiveArrivalEnd => handlers = {} /\ flushes = {} /\ ticks = {}
    /\ AdvanceTime

LiveNext ==
    \/ LiveArrival
    \/ LiveSendDone
    \/ LiveAddImagesDone
    \/ LiveFlushImagesDone
    \/ LiveFlushSendDone
    \/ TickFire
    \/ LiveTickSendDone
    \/ LiveAdvanceTime

LiveSpec ==
    /\ LiveInit /\ [][LiveNext]_vars
    /\ WF_vars(LiveSendDone) /\ WF_vars(LiveAddImagesDone)
    /\ WF_vars(LiveFlushImagesDone) /\ WF_vars(LiveFlushSendDone)
    /\ WF_vars(TickFire) /\ WF_vars(LiveTickSendDone) /\ WF_vars(LiveAdvanceTime)

(***************************************************************************)
(* Properties                                                              *)
(***************************************************************************)
Tracked == DOMAIN channelActivities

IsPrefix(p, q) == Len(p) <= Len(q) /\ SubSeq(q, 1, Len(p)) = p

\* the flags of a classification that got as far as sendBatchUpdate
FlushAttempt == {"flushStarted", "flushWaiting", "flushDenied"}

\* the runs of processBatchUpdates that came to wait in this step
NewTicks == ticks' \ ticks

\* the channels the scheduler took up to the rate limit check in this step
TickAttempted == ev'.denied \cup {channelOrder[r.i] : r \in NewTicks}

\* the entries of the Map the loop examined in this step, from entry from on
Examined(from) == {k \in from..Len(channelOrder) : \A r \in NewTicks : k <= r.i}

\* the eligibility test as the specification words it, at time tnow
ThreeConditions(a, tnow) ==
    /\ Len(a.pendingMessages) > 0
    /\ a.isActive = FALSE
    /\ tnow - a.lastActivity <= BATCH_INTERVAL

\* the latest mention or bot-authored message of a channel, 0 when none
LastInteraction(a) ==
    IF a.lastGorpMention > a.lastGorpMessage THEN a.lastGorpMention
    ELSE a.lastGorpMessage

\* C1: after every step the rate limiter holds at most maxMessagesPerHour
\* timestamps younger than the window, under every interleaving of
\* handlers, mention flushes and scheduler ticks.
C1_WithinBudget ==
    Len(PurgeTimestamps(messageTimestamps, now)) <= maxMessagesPerHour

\* C2: a scheduled flush and a mention-triggered flush of the same channel
\* are never in flight together (neither snapshots the queue between the
\* other's snapshot and its clear).
C2_FlushesExclusive ==
    \A r \in ticks, f \in flushes : channelOrder[r.i] # f.channel

\* C3: when shouldForwardImmediately returns for a mention it returns true
\* and the channel's queue is empty: what was queued has been flushed.
C3_FlushedOnReturn ==
    (ev.op = "classify" /\ "mentioned" \in ev.flags)
        => /\ "immediate" \in ev.flags
           /\ Len(channelActivities[ev.channel].pendingMessages) = 0

\* C4: when the send of a flush (mention-triggered or scheduled) fails, the
\* channel's queue is afterwards non-empty and still begins with the
\* entries the flush had read, in their order.
C4_QueueKeptOnFailure ==
    [][ /\ (ev'.op = "flushDone" /\ "ok" \notin ev'.flags)
            => \A f \in flushes \ flushes' :
                  LET q == channelActivities'[f.channel].pendingMessages
                  IN q # <<>> /\ IsPrefix(Listed(f.summary), Listed(Listing(q)))
        /\ (ev'.op = "tickDone" /\ "ok" \notin ev'.flags)
            => \A r \in ticks \ ticks' :
                  LET q == channelActivities'[channelOrder[r.i]].pendingMessages
                  IN q # <<>> /\ IsPrefix(Listed(r.summary), Listed(Listing(q)))
      ]_vars

\* C5: a flush refused by the rate limiter, mention-triggered or scheduled,
\* starts no send, records no timestamp (the limiter only drops expired
\* ones) and leaves the channel's queue as it was.
C5_DeniedFlushSendsNothing ==
    [][ /\ (ev'.op = "classify" /\ "flushDenied" \in ev'.flags)
            => /\ flushes' = flushes
               /\ messageTimestamps' = PurgeTimestamps(messageTimestamps, now)
               /\ channelActivities'[ev'.channel].pendingMessages
                    = channelActivities[ev'.channel].pendingMessages
        /\ (ev'.op = "flushImagesDone" /\ "flushDenied" \in ev'.flags)
            => /\ flushes' \subseteq flushes
               /\ \A f \in flushes' : f.pc = "sending" => f \in flushes
               /\ messageTimestamps' = PurgeTimestamps(messageTimestamps, now)
               /\ channelActivities' = channelActivities
        /\ (ev'.op \in {"tick", "tickDone"})
            => \A c \in ev'.denied :
                  /\ \A r \in NewTicks : channelOrder[r.i] # c
                  /\ channelActivities'[c].pendingMessages
                       = channelActivities[c].pendingMessages
                  /\ messageTimestamps' =
                        PurgeTimestamps(IF "ok" \in ev'.flags
                                        THEN recordMessageSent(messageTimestamps, now)
                                        ELSE messageTimestamps, now)
      ]_vars

C5_Witness ==
    /\ ev.op = "classify"
    /\ "flushDenied" \in ev.flags
    /\ Len(channelActivities[ev.channel].pendingMessages) > 0
    /\ flushes = {}

C7_TickEligibility ==
    [][ /\ ev'.op = "tick"
            => \A k \in Examined(1) :
                  (channelOrder[k] \in ev'.denied \/ \E r \in NewTicks : r.i = k)
                     <=> ThreeConditions(channelActivities'[channelOrder[k]], now)
        /\ ev'.op = "tickDone"
            => \A done \in ticks \ ticks' : \A k \in Examined(done.i + 1) :
                  (channelOrder[k] \in ev'.denied \/ \E r \in NewTicks : r.i = k)
                     <=> ThreeConditions(channelActivities'[channelOrder[k]], done.tnow)
      ]_vars

C7_Witness ==
    /\ ev.op = "tick"
    /\ \E c \in Tracked :
          /\ Len(channelActivities[c].pendingMessages) > 0
          /\ ~channelActivities[c].isActive
          /\ now - channelActivities[c].lastActivity > BATCH_INTERVAL
          /\ \A r \in ticks : channelOrder[r.i] # c
    /\ \E r \in ticks : r.tnow = now

\* C7 as stated: the tick flushes every channel it examines that meets the
\* three conditions.
C7_EligibleIsFlushed ==
    [][ ev'.op = "tick"
            => \A k \in Examined(1) :
                  ThreeConditions(channelActivities[channelOrder[k]], now)
                     => \E r \in NewTicks : r.i = k
      ]_vars

\* C8: in every reachable state every channel's pending queue holds at most
\* 50 entries, also while pushes that waited for attachments interleave
\* with other messages.
C8_QueueBounded ==
    \A c \in Tracked : Len(channelActivities[c].pendingMessages) <= MAX_PENDING

C8_Witness ==
    /\ Len(channelActivities["c1"].pendingMessages) = MAX_PENDING
    /\ pushCount["c1"] > MAX_PENDING + 1
    /\ \E h \in handlers : h.pc = "addImages"

\* C9: a queue holds exactly the latest min(n, 50) of the n entries pushed
\* onto it, in the order of their pushes; after 55 pushes the first 5 are
\* gone.
C9_LatestFiftyKept ==
    \A c \in Tracked :
        LET q == channelActivities[c].pendingMessages
            n == pushCount[c]
        IN /\ Len(q) = IF n < MAX_PENDING THEN n ELSE MAX_PENDING
           /\ \A k \in 1..Len(q) : q[k].seq = n - Len(q) + k

C9_Witness ==
    LET q == channelActivities["c1"].pendingMessages
    IN /\ pushCount["c1"] = 55
       /\ Len(q) = 50
       /\ q[1].seq = 6 /\ q[50].seq = 55
       /\ \E k \in 2..Len(q) : q[k].images /\ q[k].id < q[k - 1].id

\* C10 (as the code has it): a message without mention from another author
\* is forwarded immediately iff the channel's latest mention or
\* bot-authored message, at t0, exists and now - t0 <
\* GORP_INTERACTION_TIMEOUT; otherwise it returns false and is enqueued at
\* once, or after the download of its images, or not at all when it has
\* neither text nor attachments.
C10_TimeoutBoundary ==
    [][ (ev'.op = "classify" /\ ev'.flags \cap {"mentioned", "fromGorp"} = {})
            => LET c == ev'.channel
                   t0 == IF c \in Tracked THEN LastInteraction(channelActivities[c])
                         ELSE 0
                   q == IF c \in Tracked THEN channelActivities[c].pendingMessages
                        ELSE <<>>
                   q1 == channelActivities'[c].pendingMessages
               IN /\ "immediate" \in ev'.flags
                       <=> (t0 > 0 /\ now - t0 < GORP_INTERACTION_TIMEOUT)
                  /\ "immediate" \in ev'.flags => q1 = q
                  /\ "immediate" \notin ev'.flags
                       => \/ /\ "pushed" \in ev'.flags
                             /\ q1 # <<>> /\ q1[Len(q1)].id = ev'.id
                          \/ /\ "pushWaiting" \in ev'.flags
                             /\ q1 = q
                             /\ \E h \in handlers' \ handlers :
                                   h.id = ev'.id /\ h.pc = "addImages"
                          \/ /\ "skippedEmpty" \in ev'.flags
                             /\ q1 = q
      ]_vars

C10_Witness ==
    /\ ev.op = "classify"
    /\ ev.flags = {"pushed"}
    /\ channelActivities[ev.channel].lastGorpMention = now - GORP_INTERACTION_TIMEOUT
    /\ channelActivities[ev.channel].lastGorpMessage = 0

\* C10 as stated: at or past the timeout the message returns false and is
\* enqueued (at once or after the download of its images).
C10_EnqueuedPastTimeout ==
    [][ (/\ ev'.op = "classify" /\ ev'.flags \cap {"mentioned", "fromGorp"} = {}
         /\ ev'.channel \in Tracked
         /\ LastInteraction(channelActivities[ev'.channel]) > 0
         /\ now - LastInteraction(channelActivities[ev'.channel])
               >= GORP_INTERACTION_TIMEOUT)
            => /\ "immediate" \notin ev'.flags
               /\ ev'.flags \cap {"pushed", "pushWaiting"} # {}
      ]_vars

\* no mention and no bot-authored message has been observed in the channel
NeverInteracted(a) == a.lastGorpMention = 0 /\ a.lastGorpMessage = 0

\* the queue of channel c, empty while the channel is not tracked
QueueOf(acts, c) == IF c \in DOMAIN acts THEN acts[c].pendingMessages ELSE <<>>

\* C11 (as the code has it): in a channel in which no mention and no
\* bot-authored message has been observed, every call of
\* shouldForwardImmediately returns false and leaves the queue at least as
\* long as it was, and at most 50; the queue of such a channel gets
\* shorter only when a scheduled flush of the channel succeeds, which
\* empties it.
C11_QuietChannelQueues ==
    [][ /\ (ev'.op = "classify" /\ NeverInteracted(channelActivities'[ev'.channel]))
            => /\ "immediate" \notin ev'.flags
               /\ Len(QueueOf(channelActivities', ev'.channel))
                     >= Len(QueueOf(channelActivities, ev'.channel))
               /\ Len(QueueOf(channelActivities', ev'.channel)) <= MAX_PENDING
        /\ \A c \in Tracked :
              (/\ NeverInteracted(channelActivities'[c])
               /\ Len(QueueOf(channelActivities', c)) < Len(QueueOf(channelActivities, c)))
                 => /\ ev'.op = "tickDone" /\ ev'.channel = c /\ "ok" \in ev'.flags
                    /\ QueueOf(channelActivities', c) = <<>>
      ]_vars

C11_Witness ==
    /\ ev.op = "classify"
    /\ ev.flags = {"pushed"}
    /\ NeverInteracted(channelActivities[ev.channel])
    /\ Len(channelActivities[ev.channel].pendingMessages) = 3
    /\ pushCount[ev.channel] = 3

\* C11 as stated: the queue of such a channel never gets shorter.
C11_QueueNeverShrinks ==
    [][ \A c \in Tracked :
           NeverInteracted(channelActivities'[c])
              => Len(QueueOf(channelActivities', c)) >= Len(QueueOf(channelActivities, c))
      ]_vars

\* C12: every inbound message of the bot itself reaches
\* shouldForwardImmediately, which returns true, sets isActive and stamps
\* lastGorpMessage = now (lastGorpMention when the text mentions the bot).
C12_OwnMessageClassified ==
    [][ "bot" \in ev'.flags
           => /\ ev'.op = "classify"
              /\ "immediate" \in ev'.flags
              /\ channelActivities'[ev'.channel].isActive
              /\ \/ channelActivities'[ev'.channel].lastGorpMessage = now
                 \/ /\ "mentioned" \in ev'.flags
                    /\ channelActivities'[ev'.channel].lastGorpMention = now
      ]_vars


\* the timestamps of seq that are younger than the window at time t, counted
\* one by one
Younger(seq, t) == {k \in 1..Len(seq) : t - seq[k] < windowMs}

(***************************************************************************)
(* C13: canSendMessage removes exactly the timestamps whose age is not     *)
(* below the window (the limiter's list is in order of recording, so they  *)
(* are its first entries) and answers true exactly when fewer than         *)
(* maxMessagesPerHour timestamps remain.                                   *)
(***************************************************************************)
C13_PurgeThenCompare ==
    [][ ev'.op = "canSendMessage"
          => /\ \E n \in 0..Len(messageTimestamps) :
                   /\ messageTimestamps' = SubSeq(messageTimestamps, n + 1, Len(messageTimestamps))
                   /\ \A k \in 1..n : now - messageTimestamps[k] >= windowMs
                   /\ \A k \in (n + 1)..Len(messageTimestamps) : now - messageTimestamps[k] < windowMs
             /\ ev'.result <=> (Len(messageTimestamps') < maxMessagesPerHour)
      ]_vars

\* a full limiter whose oldest timestamp is exactly one window old admits a
\* message again while a younger timestamp is kept
C13_Witness ==
    /\ ev.op = "canSendMessage"
    /\ ev.result
    /\ Len(ev.before) = maxMessagesPerHour
    /\ ev.before[1] + windowMs = ev.at
    /\ Len(messageTimestamps) = 1


\* remainingMessages as getStatus reports it for the timestamps seq at time t
Remaining(seq, t) == getStatus(seq, t).remainingMessages

(***************************************************************************)
(* C14: a limiter with cap N that holds fewer than N timestamps admits a   *)
(* message, so N cycles of canSendMessage and recordMessageSent from an    *)
(* empty limiter all succeed; with N timestamps all younger than the       *)
(* window canSendMessage answers false; once the first of the N timestamps *)
(* has aged past the window it answers true again, and remainingMessages   *)
(* has risen from 0 by the number of timestamps that expired, which is 1   *)
(* only when the second timestamp is still younger than the window.        *)
(***************************************************************************)
C14_FillThenRecover ==
    [][ ev'.op = "canSendMessage"
          => /\ Len(messageTimestamps) < maxMessagesPerHour => ev'.result
             /\ (/\ Len(messageTimestamps) >= maxMessagesPerHour
                 /\ \A k \in 1..Len(messageTimestamps) : now - messageTimestamps[k] < windowMs)
                   => ~ev'.result
             /\ (/\ Len(messageTimestamps) = maxMessagesPerHour
                 /\ now - messageTimestamps[1] >= windowMs)
                   => /\ ev'.result
                      /\ Remaining(messageTimestamps, now - windowMs) = 0
                      /\ Remaining(messageTimestamps', now) =
                            Len(messageTimestamps) - Cardinality(Younger(messageTimestamps, now))
                      /\ (Remaining(messageTimestamps', now) = 1) <=>
                            (Cardinality(Younger(messageTimestamps, now)) = maxMessagesPerHour - 1)
      ]_vars

\* two cycles filled a limiter of cap 2; the first timestamp has aged past
\* the window, the second has not, and one slot is free again
C14_Witness ==
    /\ ev.op = "canSendMessage"
    /\ ev.result
    /\ maxMessagesPerHour = 2
    /\ Len(ev.before) = 2
    /\ ev.before[1] + windowMs < ev.at
    /\ messageTimestamps = <<ev.before[2]>>
    /\ Remaining(messageTimestamps, now) = 1

\* C14 as stated: after the first timestamp of a full limiter has expired,
\* remainingMessages is exactly 1 higher than before
C14_ExactlyOneHigher ==
    [][ (/\ ev'.op = "canSendMessage"
         /\ Len(messageTimestamps) = maxMessagesPerHour
         /\ now - messageTimestamps[1] >= windowMs)
          => /\ ev'.result
             /\ Remaining(messageTimestamps', now) = Remaining(messageTimestamps, now - windowMs) + 1
      ]_vars


\* the oldest of the timestamps of seq that are younger than the window at
\* time t
OldestYounger(seq, t) ==
    LET k == CHOOSE k \in Younger(seq, t) : \A j \in Younger(seq, t) : seq[k] <= seq[j]
    IN  seq[k]

\* when the window next admits a slot, now if it holds nothing
ResetTimeAt(seq, t) ==
    IF Younger(seq, t) = {} THEN t ELSE OldestYounger(seq, t) + windowMs

(***************************************************************************)
(* C16: getStatus reports messagesInWindow as the number of timestamps     *)
(* younger than the window, remainingMessages as the cap less that number  *)
(* and 0 when the number exceeds the cap, and resetTime as the oldest      *)
(* retained timestamp plus the window, or the current time when nothing is *)
(* retained.                                                               *)
(***************************************************************************)
C16_StatusFields ==
    [][ ev'.op = "getStatus"
          => LET count == Cardinality(Younger(messageTimestamps, now))
             IN  /\ ev'.result.messagesInWindow = count
                 /\ ev'.result.maxMessagesPerHour = maxMessagesPerHour
                 /\ ev'.result.remainingMessages =
                       (IF count <= maxMessagesPerHour THEN maxMessagesPerHour - count ELSE 0)
                 /\ ev'.result.resetTime = ResetTimeAt(messageTimestamps, now)
                 /\ Len(messageTimestamps') = count
      ]_vars

\* three timestamps under cap 1: the first has expired, two of different
\* age are retained, nothing remains and the reset is that of the older
C16_Witness ==
    /\ ev.op = "getStatus"
    /\ maxMessagesPerHour = 1
    /\ Len(ev.before) = 3
    /\ ev.before[2] < ev.before[3]
    /\ ev.result.messagesInWindow = 2
    /\ ev.result.remainingMessages = 0
    /\ ev.result.resetTime = ev.before[2] + windowMs

(***************************************************************************)
(* C17: getTimeUntilReset returns the least whole number of minutes that   *)
(* reaches resetTime from the time of its own clock reading, never a       *)
(* negative number, 0 when no timestamp is retained, and at most 60.       *)
(***************************************************************************)
C17_MinutesUntilReset ==
    [][ ev'.op = "getTimeUntilReset"
          => LET left == ResetTimeAt(messageTimestamps, now) - ev'.at
                 r == ev'.result
             IN  /\ r >= 0
                 /\ r * MS_PER_MINUTE >= left
                 /\ r > 0 => (r - 1) * MS_PER_MINUTE < left
                 /\ Younger(messageTimestamps, now) = {} => r = 0
                 /\ r * MS_PER_MINUTE <= windowMs
      ]_vars

\* half a minute more than a whole number of minutes is left and the
\* result is rounded up
C17_Witness ==
    /\ ev.op = "getTimeUntilReset"
    /\ messageTimestamps # <<>>
    /\ ev.result > 1
    /\ ev.result * MS_PER_MINUTE = messageTimestamps[1] + windowMs - ev.at + 1


\* the step called recordMessageSent n times: the limiter's list is what it
\* was, less expired timestamps a purge removed, plus n times the current
\* time
RecordedTimes(n) ==
    \E m \in 0..Len(messageTimestamps) :
        /\ \A k \in 1..m : now - messageTimestamps[k] >= windowMs
        /\ messageTimestamps' =
              SubSeq(messageTimestamps, m + 1, Len(messageTimestamps)) \o [k \in 1..n |-> now]

\* the sends to Letta that the step started
NewSends ==
    {h \in handlers' \ handlers : h.pc = "sending"}
      \cup {f \in flushes' \ flushes : f.pc = "sending"}
      \cup NewTicks

\* the step is the successful return of a send to Letta
SendSucceeded == ev'.op \in {"forwardDone", "flushDone", "tickDone"} /\ "ok" \in ev'.flags

(***************************************************************************)
(* C15: a step in which a send to Letta returns successfully (immediate    *)
(* forward, mention flush or scheduled flush) calls recordMessageSent      *)
(* exactly once, every other step (a failed send, a refusal, anything      *)
(* else) never calls it, and a send is started only when canSendMessage    *)
(* has just answered true: the limiter's list is purged and shorter than   *)
(* the cap.                                                                *)
(***************************************************************************)
C15_RecordedOncePerSend ==
    [][ /\ SendSucceeded => RecordedTimes(1)
        /\ ~SendSucceeded => RecordedTimes(0)
        /\ NewSends # {}
              => /\ Len(messageTimestamps') < maxMessagesPerHour
                 /\ \A k \in 1..Len(messageTimestamps') : now - messageTimestamps'[k] < windowMs
        /\ "forwardDenied" \in ev'.flags => handlers' = handlers
      ]_vars

\* the flush of a mention has been recorded while the forward of the same
\* message is still on its way
C15_Witness ==
    /\ ev.op = "flushDone"
    /\ "ok" \in ev.flags
    /\ messageTimestamps # <<>>
    /\ messageTimestamps[Len(messageTimestamps)] = now
    /\ \E h \in handlers : h.pc = "sending" /\ h.id = ev.id


\* the message id is kept for a later delivery: it is in its channel's queue
\* or a handler still holds it
KeptForLater(id, c) ==
    \/ \E k \in 1..Len(QueueOf(channelActivities', c)) :
          QueueOf(channelActivities', c)[k].id = id
    \/ \E h \in handlers' : h.id = id

(***************************************************************************)
(* C18: a message classified for immediate forwarding that the rate limit  *)
(* refuses is queued for a later delivery, not discarded.                  *)
(***************************************************************************)
C18_DeniedForwardQueued ==
    [][ (ev'.op = "classify" /\ "forwardDenied" \in ev'.flags)
          => KeptForLater(ev'.id, ev'.channel)
      ]_vars


\* the entries of the Map that a run has still before it when it starts
\* (from entry 1) or goes on after the send for entry i (from i + 1), with
\* the time the run read when it began
RunsGoingOn ==
    IF ev'.op = "tick" THEN {[from |-> 1, tnow |-> now]}
    ELSE IF ev'.op = "tickDone"
         THEN {[from |-> done.i + 1, tnow |-> done.tnow] : done \in ticks \ ticks'}
         ELSE {}

(***************************************************************************)
(* C19: when a run of the scheduler starts, and when it goes on after a    *)
(* send that succeeded or failed, every channel still before it that meets *)
(* the eligibility test is either refused by the rate limit in this step,  *)
(* or the run waits for the send of that channel or of an earlier one and  *)
(* comes to it afterwards; a refusal is given only while the limiter is    *)
(* full, and it ends neither the run nor the evaluation of the channels    *)
(* after it.                                                               *)
(***************************************************************************)
C19_TickGoesOn ==
    [][ /\ \A run \in RunsGoingOn : \A k \in run.from..Len(channelOrder) :
              ThreeConditions(channelActivities'[channelOrder[k]], run.tnow)
                 => \/ channelOrder[k] \in ev'.denied
                    \/ \E r \in NewTicks : r.i <= k /\ r.i >= run.from
        /\ (ev'.op \in {"tick", "tickDone"} /\ ev'.denied # {})
              => Len(messageTimestamps') >= maxMessagesPerHour
      ]_vars

\* the send for one channel failed and the run went on to send the digest
\* of a later channel
C19_Witness ==
    /\ ev.op = "tickDone"
    /\ "ok" \notin ev.flags
    /\ \E r \in ticks : \E k \in 1..Len(channelOrder) :
          /\ channelOrder[k] = ev.channel
          /\ r.i > k
          /\ Len(channelActivities[ev.channel].pendingMessages) > 0

\* a run that was refused for one channel went on and was refused for the
\* next as well
C19_BothRefused == ev.op = "tick" /\ Cardinality(ev.denied) = 2


\* the stamp last is within GORP_INTERACTION_TIMEOUT of time t
RecentAt(t, last) == last # 0 /\ t - last < GORP_INTERACTION_TIMEOUT

(***************************************************************************)
(* C20: after a call of shouldForwardImmediately the channel's isActive is *)
(* true exactly when its lastGorpMention or its lastGorpMessage is within  *)
(* GORP_INTERACTION_TIMEOUT of the time of the call, and exactly when the  *)
(* call returned true; the call leaves isActive of the other channels      *)
(* alone, and no other step changes isActive of any channel.               *)
(***************************************************************************)
C20_ActiveIffRecent ==
    [][ /\ ev'.op = "classify"
            => LET a == channelActivities'[ev'.channel]
               IN  /\ a.isActive <=> (\/ RecentAt(now, a.lastGorpMention)
                                      \/ RecentAt(now, a.lastGorpMessage))
                   /\ a.isActive <=> ("immediate" \in ev'.flags)
        /\ \A c \in Tracked :
              (ev'.op # "classify" \/ ev'.channel # c)
                 => /\ c \in DOMAIN channelActivities'
                    /\ channelActivities'[c].isActive = channelActivities[c].isActive
      ]_vars

\* a channel that was active has gone quiet: the message that comes after
\* the timeout is batched and clears isActive
C20_Witness ==
    /\ ev.op = "classify"
    /\ "immediate" \notin ev.flags
    /\ ~channelActivities[ev.channel].isActive
    /\ channelActivities[ev.channel].lastGorpMessage > 0
    /\ now - channelActivities[ev.channel].lastGorpMessage >= GORP_INTERACTION_TIMEOUT
    /\ channelActivities[ev.channel].lastGorpMention = 0


(***************************************************************************)
(* C21: a call of shouldForwardImmediately for a message with empty text   *)
(* and no attachment leaves the channel's queue as it was and starts no    *)
(* download for it, yet stamps lastActivity with the time of the call; the *)
(* message is classified like any other: one from the bot stamps           *)
(* lastGorpMessage and is immediate, one from another author is immediate  *)
(* exactly when the channel's last interaction is within the timeout, and  *)
(* stamps nothing else.                                                    *)
(***************************************************************************)
C21_EmptyNotQueued ==
    [][ (ev'.op = "classify" /\ "empty" \in ev'.flags)
          => LET c == ev'.channel
                 a == channelActivities'[c]
             IN  /\ QueueOf(channelActivities', c) = QueueOf(channelActivities, c)
                 /\ pushCount' = pushCount
                 /\ \A h \in handlers' : h.id = ev'.id => h.pc # "addImages"
                 /\ a.lastActivity = now
                 /\ "bot" \in ev'.flags
                       => a.lastGorpMessage = now /\ "immediate" \in ev'.flags
                 /\ "bot" \notin ev'.flags
                       => /\ ("immediate" \in ev'.flags) <=>
                                (\/ RecentAt(now, a.lastGorpMention)
                                 \/ RecentAt(now, a.lastGorpMessage))
                          /\ c \in Tracked
                                => /\ a.lastGorpMention = channelActivities[c].lastGorpMention
                                   /\ a.lastGorpMessage = channelActivities[c].lastGorpMessage
      ]_vars

\* an empty message came to a quiet channel with a queued message: it is
\* not immediate, the queue still holds the one entry, lastActivity is the
\* time of the empty message
C21_Witness ==
    /\ ev.op = "classify"
    /\ ev.flags = {"empty", "skippedEmpty"}
    /\ Len(channelActivities[ev.channel].pendingMessages) = 1
    /\ channelActivities[ev.channel].pendingMessages[1].id < ev.id
    /\ channelActivities[ev.channel].lastActivity = now
    /\ now > TimeStep


\* the step is the MessageCreate handler's run for a message that it hands
\* to handleMessageForwarding
HandedToForwarding ==
    /\ nextId' = nextId + 1
    /\ \/ ev'.op = "classify"
       \/ ev'.op = "ignored" /\ "notForwarded" \in ev'.flags

(***************************************************************************)
(* C22: with auto-forward enabled and smart forwarding disabled, every     *)
(* message with text or attachments that the handler hands to the          *)
(* forwarding path is passed to sendMessageToLetta at once (sent, or       *)
(* refused by the rate limit) and nothing is queued.                       *)
(***************************************************************************)
C22_AllForwardedWhenSmartOff ==
    [][ (/\ config.enabled /\ config.autoForward /\ ~config.smartForward
         /\ HandedToForwarding
         /\ "empty" \notin ev'.flags)
          => /\ ev'.flags \cap {"forwardStarted", "forwardDenied"} # {}
             /\ pushCount' = pushCount
      ]_vars


(***************************************************************************)
(* C23: a message made of the bot's mention and a known command word is    *)
(* dispatched to the command's handler: it is not classified by the        *)
(* tracker, not queued and not sent to Letta.                              *)
(***************************************************************************)
C23_CommandDispatched ==
    [][ "command" \in ev'.flags
          => /\ ev'.op = "command"
             /\ UNCHANGED <<channelActivities, messageTimestamps, handlers, flushes>>
      ]_vars


(***************************************************************************)
(* C24: destroy clears the timer and touches nothing else; once cleared    *)
(* the timer stays cleared and no run of the scheduler starts; a send of   *)
(* the scheduler or of a mention flush that was in flight still ends as it *)
(* does otherwise: on success one timestamp is recorded and the channel's  *)
(* queue is emptied, on failure neither changes; destroy called with the   *)
(* timer already cleared changes nothing.                                  *)
(***************************************************************************)
C24_DestroyStopsTimer ==
    [][ /\ ev'.op = "destroy"
            => /\ ~batchInterval'
               /\ ("cleared" \in ev'.flags) <=> batchInterval
               /\ UNCHANGED <<maxMessagesPerHour, config, imageCalls, now, nextId, channelActivities,
                              channelOrder, messageTimestamps, handlers, flushes, ticks,
                              nextTickAt, pushCount, abandoned>>
        /\ ~batchInterval => (~batchInterval' /\ ev'.op # "tick" /\ nextTickAt' = nextTickAt)
        /\ (~batchInterval /\ ev'.op \in {"tickDone", "flushDone"})
            => IF "ok" \in ev'.flags
               THEN /\ RecordedTimes(1)
                    /\ QueueOf(channelActivities', ev'.channel) = <<>>
               ELSE /\ RecordedTimes(0)
                    /\ QueueOf(channelActivities', ev'.channel) =
                          QueueOf(channelActivities, ev'.channel)
      ]_vars

\* the timer has been cleared while a scheduled flush was in flight; the
\* flush has succeeded since, and the time of the next tick has come
\* without a run
C24_Witness ==
    /\ ~batchInterval
    /\ ev.op = "tickDone"
    /\ "ok" \in ev.flags
    /\ now = nextTickAt
    /\ ticks = {}
    /\ messageTimestamps # <<>>
    /\ messageTimestamps[Len(messageTimestamps)] = now
    /\ channelActivities[ev.channel].pendingMessages = <<>>


\* the places of the attachments of call that are images of an allowed type
Accepted(call) ==
    {k \in 1..Len(call.attachments) : call.attachments[k] \in {"image", "large"}}

(***************************************************************************)
(* C25: a call of processImageAttachments that has returned holds exactly  *)
(* one descriptor for each accepted image attachment, in the order of the  *)
(* input; the descriptor of an attachment that was too large or whose      *)
(* download failed carries the error and no payload, that of every other   *)
(* one the payload and no error, whatever happened to its neighbours.      *)
(***************************************************************************)
C25_OneDescriptorPerImage ==
    \A c \in 1..Len(imageCalls) :
        LET call == imageCalls[c]
            results == call.results
        IN  call.i = 0
              => /\ Len(results) = Cardinality(Accepted(call))
                 /\ {results[j].name : j \in 1..Len(results)} = Accepted(call)
                 /\ \A j \in 1..Len(results) : \A l \in 1..Len(results) :
                       j < l => results[j].name < results[l].name
                 /\ \A j \in 1..Len(results) :
                       LET k == results[j].name
                           failed == call.attachments[k] = "large" \/ ~call.outcome[k]
                       IN  /\ results[j].error <=> failed
                           /\ results[j].base64Data <=> ~failed

\* four images in two batches: the download of the second failed, those
\* of the first, third and fourth succeeded and are returned with it
C25_Witness ==
    \E c \in 1..Len(imageCalls) :
        /\ imageCalls[c].i = 0
        /\ imageCalls[c].attachments = <<"image", "image", "image", "image">>
        /\ Len(imageCalls[c].results) = 4
        /\ imageCalls[c].results[1].base64Data
        /\ imageCalls[c].results[2].error
        /\ imageCalls[c].results[3].base64Data
        /\ imageCalls[c].results[4].base64Data

\* the fetches in flight in all calls together
RECURSIVE FetchesInFlight(_)
FetchesInFlight(n) ==
    IF n = 0 THEN 0 ELSE Cardinality(imageCalls[n].inflight) + FetchesInFlight(n - 1)

(***************************************************************************)
(* C26: at any moment at most batchSize (3) attachment fetches are in      *)
(* flight, all calls of processImageAttachments taken together.            *)
(***************************************************************************)
C26_FetchesBounded == FetchesInFlight(Len(imageCalls)) <= batchSize

\* one call alone never has more than batchSize fetches in flight
C26_PerCallBounded ==
    \A c \in 1..Len(imageCalls) : Cardinality(imageCalls[c].inflight) <= batchSize


(***************************************************************************)
(* C27: the mention test comes before the author test: a call of           *)
(* shouldForwardImmediately for a message of the bot whose text mentions   *)
(* the bot attempts the flush of the channel's queue exactly when the      *)
(* queue is not empty, stamps lastGorpMention with the time of the call,   *)
(* leaves lastGorpMessage as it was, sets isActive and returns true.       *)
(***************************************************************************)
C27_MentionBeforeAuthor ==
    [][ (ev'.op = "classify" /\ {"bot", "mentionText"} \subseteq ev'.flags)
          => LET c == ev'.channel
                 a == channelActivities'[c]
             IN  /\ (ev'.flags \cap FlushAttempt # {}) <=> (QueueOf(channelActivities, c) # <<>>)
                 /\ a.lastGorpMention = now
                 /\ a.lastGorpMessage =
                       (IF c \in Tracked THEN channelActivities[c].lastGorpMessage ELSE 0)
                 /\ a.isActive
                 /\ "immediate" \in ev'.flags
      ]_vars

\* the bot's own message mentioning the bot came to a channel with a
\* queue: the flush was started and only lastGorpMention was stamped
C27_Witness ==
    /\ ev.op = "classify"
    /\ {"bot", "mentionText", "flushStarted", "immediate"} \subseteq ev.flags
    /\ channelActivities[ev.channel].lastGorpMention = now
    /\ channelActivities[ev.channel].lastGorpMessage = 0
    /\ \E f \in flushes : f.id = ev.id /\ Len(Listed(f.summary)) > 0


\* d is the digest of queue q: a header, then one entry for each entry of q
\* in the order of q, then, for a mention-triggered flush (mention # 0), a
\* separator and the mention, and nothing else; the count the header states
\* is the number of entries d lists.
DigestOf(d, q, mention) ==
    /\ Len(d) = 1 + Len(q) + (IF mention = 0 THEN 0 ELSE 2)
    /\ d[1].kind = "header"
    /\ d[1].id = Len(Listed(d))
    /\ \A k \in 1..Len(q) : d[k + 1] = [kind |-> "entry", id |-> q[k].id]
    /\ mention # 0 => /\ d[Len(q) + 2].kind = "separator"
                      /\ d[Len(q) + 3] = [kind |-> "mention", id |-> mention]

TimestampsAtLoop ==
    IF ev'.op = "tickDone" /\ "ok" \in ev'.flags
    THEN recordMessageSent(messageTimestamps, now)
    ELSE messageTimestamps

(***************************************************************************)
(* C29: on each of the three paths the call of the downstream sender is    *)
(* preceded, in the same attempt, by a canSendMessage() that answered      *)
(* true: an immediate forward, a mention-triggered flush (with or without  *)
(* a download of the mention's images before the check) or a scheduled     *)
(* flush starts its send only in a step in which canSendMessage, asked of  *)
(* the limiter as the attempt finds it, answers true, and an attempt that  *)
(* was refused starts no send.                                             *)
(***************************************************************************)
C29_NoSendWithoutAdmission ==
    [][ /\ \A h \in handlers' \ handlers :
              h.pc = "sending"
                 => /\ "forwardStarted" \in ev'.flags /\ "forwardDenied" \notin ev'.flags
                    /\ h.id = ev'.id
                    /\ canSendMessage(messageTimestamps, now)
        /\ \A f \in flushes' \ flushes :
              f.pc = "sending"
                 => /\ "flushStarted" \in ev'.flags /\ "flushDenied" \notin ev'.flags
                    /\ f.id = ev'.id
                    /\ canSendMessage(messageTimestamps, now)
        /\ \A r \in NewTicks :
              /\ ev'.op \in {"tick", "tickDone"}
              /\ channelOrder[r.i] \notin ev'.denied
              /\ canSendMessage(TimestampsAtLoop, now)
      ]_vars

\* the check made after the download of a mention's images has admitted the
\* flush, while the immediate forward of the same mention, admitted by its
\* own check, is still being sent
C29_Witness ==
    /\ ev.op = "flushImagesDone" /\ "flushStarted" \in ev.flags
    /\ \E f \in flushes : f.id = ev.id /\ f.pc = "sending"
    /\ \E h \in handlers : h.id = ev.id /\ h.pc = "sending"
    /\ ticks # {}


\* how many times the time v is held in the list ts
CountOf(ts, v) == Cardinality({k \in DOMAIN ts : ts[k] = v})

\* the step is a call of one of the limiter's two queries
QueryCalled == ev'.op \in {"canSendMessage", "getStatus"}

(***************************************************************************)
(* C30: a call of canSendMessage() or getStatus() adds no timestamp (no    *)
(* time is held more often after the call than before), removes no         *)
(* timestamp still inside the window, keeps the order of those it keeps    *)
(* and leaves the cap alone; a second call of the same query directly      *)
(* after the first, at the same time, returns what the first returned and  *)
(* changes nothing at all.                                                 *)
(***************************************************************************)
C30_QueriesOnlyPurge ==
    [][ /\ QueryCalled
            => /\ \A v \in 0..LimiterMaxTime :
                     /\ CountOf(messageTimestamps', v) <= CountOf(messageTimestamps, v)
                     /\ now - v < windowMs
                          => CountOf(messageTimestamps', v) = CountOf(messageTimestamps, v)
               /\ \A k \in 1..(Len(messageTimestamps') - 1) :
                     messageTimestamps'[k] <= messageTimestamps'[k + 1]
               /\ maxMessagesPerHour' = maxMessagesPerHour
        /\ (QueryCalled /\ ev.op = ev'.op /\ ev.at = ev'.at)
            => /\ ev'.result = ev.result
               /\ messageTimestamps' = messageTimestamps
      ]_vars

\* canSendMessage has just refused: the list is full of timestamps inside
\* the window, the oldest of them within TimeStep of expiring, and the call
\* has left the list as it was
C30_Witness ==
    /\ ev.op = "canSendMessage"
    /\ ~ev.result
    /\ ev.before = messageTimestamps
    /\ Len(messageTimestamps) = maxMessagesPerHour
    /\ now - messageTimestamps[1] < windowMs
    /\ now - messageTimestamps[1] >= windowMs - TimeStep


\* the messages queue q holds
Queued(q) == {q[k].id : k \in 1..Len(q)}

\* the messages the step removed from the queue of channel c
Removed(c) ==
    Queued(channelActivities[c].pendingMessages)
        \ Queued(channelActivities'[c].pendingMessages)

\* C31: every entry a successful flush, mention-triggered or scheduled,
\* removes from the channel's queue is listed in the digest that flush sent.
C31_ClearedWasSent ==
    [][ /\ (ev'.op = "flushDone" /\ "ok" \in ev'.flags)
            => \A f \in flushes \ flushes' :
                  Removed(f.channel) \subseteq {Listed(f.summary)[k] : k \in 1..Len(Listed(f.summary))}
        /\ (ev'.op = "tickDone" /\ "ok" \in ev'.flags)
            => \A r \in ticks \ ticks' :
                  Removed(channelOrder[r.i])
                      \subseteq {Listed(r.summary)[k] : k \in 1..Len(Listed(r.summary))}
      ]_vars


\* C32: no queue entry is listed in more than one digest that was sent
\* successfully.
C32_EntryDeliveredOnce == \A x \in relayed : x[2] = "entry" => x[3] = 1


\* C33: no inbound message is carried by more than one successful send to
\* Letta, be it as an individual forward, as the mention of a digest or as
\* an entry of a digest; each successful send records one timestamp (C15),
\* so the message then takes at most one place in the rate limit.
C33_RelayedOnce == \A x, y \in relayed : x[1] = y[1] => x = y


\* message id is held in some channel's queue
InQueue(id) ==
    \E c \in DOMAIN channelActivities : id \in Queued(channelActivities[c].pendingMessages)

\* message id has been sent to Letta as an entry of a digest
Delivered(id) == \E x \in relayed : x[1] = id /\ x[2] = "entry"

\* C34: when every send succeeds, the rate limiter admits every attempt and
\* the timer keeps firing, a message that is in a channel's queue is
\* eventually sent as an entry of a digest, although no further message
\* arrives in the channel.
C34_QueuedIsDelivered ==
    \A id \in 1..LiveMsgs : InQueue(id) ~> Delivered(id)


\* C35: every channel's queue holds its messages in the order in which they
\* arrived at shouldForwardImmediately (message ids number the arrivals).
C35_QueueInArrivalOrder ==
    \A c \in DOMAIN channelActivities :
        LET q == channelActivities[c].pendingMessages
        IN \A j, k \in 1..Len(q) : j < k => q[j].id < q[k].id


\* the step leaves the records of all channels but c as they were
OthersUntouched(c) ==
    \A d \in DOMAIN channelActivities \ {c} : channelActivities'[d] = channelActivities[d]

(***************************************************************************)
(* C36: a step that is about one channel (the classification of one of     *)
(* its messages, the push of one of its entries, the start or the end of   *)
(* one of its flushes) leaves the record of every other channel as it      *)
(* was, and a step about no channel (the timer, the clock) leaves all      *)
(* records as they were; the digest a flush starts with lists entries of   *)
(* its own channel's queue only; a record appears only in the              *)
(* classification of a message of its channel and no record disappears.    *)
(***************************************************************************)
C36_ChannelsIndependent ==
    [][ /\ OthersUntouched(ev'.channel)
        /\ DOMAIN channelActivities \subseteq DOMAIN channelActivities'
        /\ \A d \in DOMAIN channelActivities' \ DOMAIN channelActivities :
              ev'.op = "classify" /\ ev'.channel = d
        /\ ev'.op = "classify"
              => \A f \in flushes' \ flushes :
                    /\ f.channel = ev'.channel
                    /\ Listed(f.summary) = Listed(Listing(channelActivities'[f.channel].pendingMessages))
        /\ \A r \in ticks' \ ticks :
              Listed(r.summary)
                 = Listed(Listing(channelActivities'[channelOrder'[r.i]].pendingMessages))
      ]_vars

\* a mention in c2 has started the flush of c2's queue while c1 holds a
\* queue of its own
C36_Witness ==
    /\ ev.op = "classify" /\ ev.channel = "c2" /\ "flushStarted" \in ev.flags
    /\ DOMAIN channelActivities = {"c1", "c2"}
    /\ channelActivities["c1"].pendingMessages # <<>>
    /\ \E f \in flushes :
          /\ f.channel = "c2" /\ f.id = ev.id
          /\ Listed(f.summary) # Listed(Listing(channelActivities["c1"].pendingMessages))


\* the record of channel c before the step, a fresh one if there was none
RecordBefore(c) ==
    IF c \in DOMAIN channelActivities THEN channelActivities[c] ELSE NewActivity

(***************************************************************************)
(* C37: lastGorpMention and lastGorpMessage of a channel change only in    *)
(* the classification of a message of that channel that mentions the bot   *)
(* or is the bot's own, and then to the time of the call; the              *)
(* classification of any other message, forwarded at once or enqueued,     *)
(* leaves both as they were, and such a message is forwarded at once       *)
(* exactly when one of the two stamps is less than                         *)
(* GORP_INTERACTION_TIMEOUT old.                                           *)
(***************************************************************************)
C37_OnlyInteractionsMoveWindow ==
    [][ \A c \in DOMAIN channelActivities' :
           LET old == RecordBefore(c)
               new == channelActivities'[c]
               other == ev'.op = "classify" /\ ev'.channel = c
                           /\ ev'.flags \cap {"bot", "mentionText"} = {}
           IN /\ new.lastGorpMention \in {old.lastGorpMention, now}
              /\ new.lastGorpMessage \in {old.lastGorpMessage, now}
              /\ new.lastGorpMention # old.lastGorpMention
                    => ev'.op = "classify" /\ ev'.channel = c /\ "mentionText" \in ev'.flags
              /\ new.lastGorpMessage # old.lastGorpMessage
                    => ev'.op = "classify" /\ ev'.channel = c /\ "bot" \in ev'.flags
              /\ other => /\ new.lastGorpMention = old.lastGorpMention
                          /\ new.lastGorpMessage = old.lastGorpMessage
                          /\ "immediate" \in ev'.flags
                                <=> \/ RecentAt(now, old.lastGorpMention)
                                    \/ RecentAt(now, old.lastGorpMessage)
      ]_vars

\* an ordinary message has been forwarded at once, a step of the clock
\* after the channel's mention, and the stamp of the mention has stayed
C37_Witness ==
    /\ ev.op = "classify" /\ "immediate" \in ev.flags
    /\ ev.flags \cap {"bot", "mentionText"} = {}
    /\ channelActivities[ev.channel].lastActivity = now
    /\ channelActivities[ev.channel].lastGorpMention = now - TimeStep
    /\ channelActivities[ev.channel].lastGorpMessage = 0


(***************************************************************************)
(* C38: after every step the lastActivity of every tracked channel is at   *)
(* least its lastGorpMention and at least its lastGorpMessage, and none    *)
(* of the three stamps of a channel is smaller after a step than before    *)
(* it (the clock does not go back).                                        *)
(***************************************************************************)
C38_StampsOrderedAndMonotonic ==
    [][ \A c \in DOMAIN channelActivities' :
           LET new == channelActivities'[c]
           IN /\ new.lastActivity >= new.lastGorpMention
              /\ new.lastActivity >= new.lastGorpMessage
              /\ c \in DOMAIN channelActivities
                    => /\ new.lastActivity >= channelActivities[c].lastActivity
                       /\ new.lastGorpMention >= channelActivities[c].lastGorpMention
                       /\ new.lastGorpMessage >= channelActivities[c].lastGorpMessage
      ]_vars

\* a channel whose three stamps are all set and all different: the bot's
\* message, later the mention, later still an ordinary message
C38_Witness ==
    \E c \in DOMAIN channelActivities :
        /\ 0 < channelActivities[c].lastGorpMessage
        /\ channelActivities[c].lastGorpMessage < channelActivities[c].lastGorpMention
        /\ channelActivities[c].lastGorpMention < channelActivities[c].lastActivity
        /\ ev.op = "classify" /\ ev.channel = c

=============================================================================
